---- MODULE Spec2Model ----
(***************************************************************************)
(* OpenSet query execution substrate.                                      *)
(*                                                                         *)
(*   SpecLoop      the per-partition cooperative scheduler                 *)
(*                 (src/src/asyncloop.cpp: AsyncLoop)                      *)
(*   SpecFork      a fork node answering one query through a Shuttle       *)
(*                 (src/src/rpc_query.cpp: RpcQuery::event, segment,       *)
(*                 column, histogram)                                      *)
(*   SpecDispatch  the batch sub-query dispatcher                          *)
(*                 (src/src/rpc_query.cpp: queryDispatch)                  *)
(*   SpecIntake    the query workers of the HTTP intake                    *)
(*                 (src/src/http_serve.cpp: webWorker::runner)             *)
(*   SpecForkQuery the originator gathering the replies of the nodes       *)
(*                 (src/src/rpc_query.cpp: forkQuery)                      *)
(*   SpecColumn    the checks of the column endpoint on its parameters     *)
(*                 (src/src/rpc_query.cpp: RpcQuery::column)               *)
(*                                                                         *)
(* Each specification moves its own group of variables and leaves the      *)
(* other groups at their initial value.                                    *)
(***************************************************************************)
EXTENDS Integers, Sequences, FiniteSets, TLC

(***************************************************************************)
(* Bounds of the model                                                     *)
(***************************************************************************)
\* number of Open-Loops ever submitted to the Partition Loop
MaxLoops == 2
\* number of Open-Loops submitted where purgeByTable is studied with a still clock
MaxPurgeLoops == 3
\* last value of the clock read by Now()
MaxTime == 1

\* worker threads of the pool (AsyncPool::getWorkerCount)
WorkerCount == 2
\* partitions of the cluster map a fork node may own
PartitionMax == 3

\* sections a batch request may have
MaxSections == 5

\* query messages the HTTP intake ever queues
MaxMessages == 4

\* responses dispatchCluster brings back to forkQuery
MaxResponses == 2

\* width in bits of the signed integer that stands for the int64_t person id
IdBits == 5

\* parameters in the query string of one message
MaxParams == 2

\* originator queries clients ever send to the node
MaxOrigins == 3

\* forkQuery broadcasts followed, one after the other
MaxHops == 3

\* messages clients ever queue when both queues and both kinds of worker run
MaxQueued == 2

Ids == 1..(IF MaxLoops > MaxPurgeLoops THEN MaxLoops ELSE MaxPurgeLoops)
Tables == {"A", "B"}
Workers == 0..(WorkerCount - 1)
Partitions == 0..(PartitionMax - 1)
Endpoints == {"event", "segment", "column", "histogram"}
Sections == 1..MaxSections
\* threads of queryDispatch: 0 is the caller, k the one that delivers the response
\* of section k
Threads == 0..MaxSections

VARIABLES
    \* ---- AsyncLoop (asyncloop.cpp) ----
    queued,      \* AsyncLoop::queued, sequence of loop ids
    active,      \* AsyncLoop::active, sequence of loop ids
    queueSize,   \* AsyncLoop::queueSize
    ol,          \* the OpenLoop objects: id -> fields
    nextId,      \* next OpenLoop to be constructed
    now,         \* the clock behind Now()
    pc,          \* position of the owning worker inside AsyncLoop::run
    iter,        \* the sequence the range-for of run() walks
    idx,         \* position of the range-for in iter
    rerun,       \* local vector rerun of run()
    runCount,    \* local runCount of run()
    nextRun,     \* the in/out parameter nextRun of run()
    nextRunIn,   \* the value of nextRun the current call of run() was given
    ret,         \* value returned by the last call of run()
    \* ---- observation of the scheduler ----
    hist,        \* per loop: calls made on it and how it was destroyed
    tickStart,   \* ids in queued or active when the current tick admitted
    considered,  \* ids gate-checked in the current tick, in order
    triggered,   \* asyncPool->workerInfo[worker].triggered
    ranTrue,     \* some w->run() of the current tick returned true
    condition,   \* what w->checkCondition() answered in the last pass of the walk
    prepareEnded, \* prepare() set the state to done in the last pass of the walk
    \* ---- a fork node answering one query (rpc_query.cpp) ----
    fpc,         \* "start", then "forked" (Shuttle created) or "replied"
    endpoint,    \* the endpoint of the request
    activeList,  \* the active_owner partitions of this node
    resultSets,  \* the vector resultSets: ResultSet instances, one per worker
    cells,       \* per partition: the Open-Loop made for it and its ResultSet
    wrun,        \* per worker: the partition whose Open-Loop it is running
    expected,    \* Shuttle: the number of responses it waits for
    responses,   \* Shuttle: the responses in arrival order (TRUE: in error)
    completes,   \* Shuttle: invocations of on_complete
    released,    \* Shuttle: invocations of release
    replies,     \* the replies sent on the message (status codes)
    rsFreed,     \* per ResultSet instance: number of deletes
    bufAlloc,    \* serialized buffers made by multiSetToInternode
    bufFreed,    \* serialized buffers given back with freePtr
    \* ---- queryDispatch (rpc_query.cpp) ----
    nSec,        \* queries.size()
    qiter,       \* iter: number of sections it has passed
    doneSending, \* local doneSending
    receivedCount, \* local receivedCount
    sendCount,   \* local sendCount
    running,     \* local running
    routeError,  \* result.routeError
    dpc,         \* per thread: its position in queryDispatch, sendOne, completeCallback
    claim,       \* per thread: the section its sendOne is about to dispatch
    sect,        \* per section: "unsent", "claimed", "inflight", "failed", "answered"
    seenSend,    \* the value of sendCount the wait loop has read
    \* ---- HTTP intake, query workers (http_serve.cpp) ----
    queryMessages,       \* HttpServe::queryMessages, the queue of the query workers
    otherMessages,       \* HttpServe::otherMessages, the queue of the other workers
    queryMessagesQueued, \* HttpServe::queryMessagesQueued
    otherMessagesQueued, \* HttpServe::otherMessagesQueued
    runningQueries,      \* HttpServe::runningQueries
    jobsRun,             \* HttpServe::jobsRun
    wpc,                 \* per position in webWorker::runner: the query workers there
    owpc,                \* per position in webWorker::runner: the other workers there
    nextMessage,         \* the number the next message made by MakeMessage gets
    clients,             \* requests of clients received so far
    gotQuery,            \* the messages getQueuedQueryMessage returned, in order
    gotOther,            \* the messages getQueuedOtherMessage returned, in order
    forkReplied,         \* per method: fork replies of this node not yet read by
                         \* the originator that waits for them
    \* ---- forkQuery on the originator (rpc_query.cpp) ----
    fqpc,         \* "start", "loop" (inside the for over the responses), "done"
    fqResponses,  \* result.responses
    fqRoute0,     \* result.routeError as dispatchCluster returned it
    fqRouteError, \* result.routeError
    fqIdx,        \* position of the for in result.responses
    fqSets,       \* resultSets.size()
    fqReplies,    \* the replies sent on the message, in order
    fqRet,        \* what forkQuery returned: "none" (not yet), "null", "json"
    fqMerged,     \* resultSetToJson, sort and trim were done
    fqReleased,   \* calls of releaseResponses
    fqDeleted,    \* per ResultSet of resultSets, in order: number of deletes
    fqUsedFreed,  \* resultSetToJson was given a ResultSet that was deleted before
    \* ---- RpcQuery::column, the checks on the parameters (rpc_query.cpp) ----
    cpc,          \* "start", then "done"
    cReq,         \* the request: column type, filter mode, and what the checks read
    cReply,       \* the error replied, or NoReply
    cPassed,      \* the handler went past the checks, to forkQuery or to the fork
    \* ---- RpcQuery::person (rpc_query.cpp) ----
    pUuid,           \* uuid of the last person request
    targetPartition, \* targetPartition of the last person request
    pReply,          \* how the last person request ended
    \* ---- getInlineVaraibles (rpc_query.cpp) ----
    ivpc,            \* "start", "loop" (inside the for over the query), "done"
    ivQuery,         \* message->getQuery(): the keys of the query string
    ivTodo,          \* the keys the for has not reached yet
    paramVars,       \* the local paramVars: the parameters made so far
    \* ---- HTTP intake, the resources of mapEndpoints (http_serve.cpp) ----
    request,             \* the last request: method, path, query_string
    routed,              \* what its resource did: "query", "other", "pong", "default"
    \* ---- RpcQuery::batch, the runner thread (rpc_query.cpp) ----
    bpc,  \* "start", "segments", "segmentsFor", "queries", "queriesFor", "done"
    bSegmentList,  \* segmentList.size()
    bQueryList,  \* queryList.size()
    bResults,  \* results.responses of the queryDispatch call in hand
    bRouteError,  \* results.routeError
    bIdx,  \* position of the for in results.responses
    bReplies, \* the replies sent on the message, in order
    \* ---- the fork decision of a query handler ----
    hpc,  \* where the request is: "client", "handler", "decide", "fork"
    hParams,  \* the query parameters of the message in the handler
    hIsFork,  \* isFork of the handler
    hDepth,  \* the number of forkQuery broadcasts the message comes from
    hForkInFork  \* a handler with isFork has called forkQuery

loopVars == <<queued, active, queueSize, ol, nextId, now, pc, iter, idx, rerun,
              runCount, nextRun, nextRunIn, ret, hist, tickStart, considered,
              triggered, ranTrue, condition, prepareEnded>>

forkVars == <<fpc, endpoint, activeList, resultSets, cells, wrun, expected, responses, completes,
              released, replies, rsFreed, bufAlloc, bufFreed>>

dispVars == <<nSec, qiter, doneSending, receivedCount, sendCount, running, routeError,
              dpc, claim, sect, seenSend>>

intakeVars == <<queryMessages, otherMessages, queryMessagesQueued, otherMessagesQueued,
               runningQueries, jobsRun, wpc, owpc, nextMessage, clients, gotQuery,
               gotOther, forkReplied>>

fqVars == <<fqpc, fqResponses, fqRoute0, fqRouteError, fqIdx, fqSets, fqReplies, fqRet,
            fqMerged, fqReleased, fqDeleted, fqUsedFreed>>

colVars == <<cpc, cReq, cReply, cPassed>>

personVars == <<pUuid, targetPartition, pReply>>

ivVars == <<ivpc, ivQuery, ivTodo, paramVars>>

routeVars == <<request, routed>>

batchVars == <<bpc, bSegmentList, bQueryList, bResults, bRouteError, bIdx, bReplies>>

hopVars == <<hpc, hParams, hIsFork, hDepth, hForkInFork>>

vars == <<loopVars, forkVars, dispVars, intakeVars, fqVars, colVars, personVars, ivVars,
    routeVars, batchVars, hopVars>>

\* what the scheduler's steps leave alone, and what the fork node's steps leave alone
notLoop == <<forkVars, dispVars, intakeVars, fqVars, colVars, personVars, ivVars,
    routeVars, batchVars, hopVars>>
notFork == <<loopVars, dispVars, intakeVars, fqVars, colVars, personVars, ivVars,
    routeVars, batchVars, hopVars>>
notDisp == <<loopVars, forkVars, intakeVars, fqVars, colVars, personVars, ivVars,
    routeVars, batchVars, hopVars>>
notIntake == <<loopVars, forkVars, dispVars, fqVars, colVars, personVars, ivVars,
    routeVars, batchVars, hopVars>>
notFq == <<loopVars, forkVars, dispVars, intakeVars, colVars, personVars, ivVars,
    routeVars, batchVars, hopVars>>
notCol == <<loopVars, forkVars, dispVars, intakeVars, fqVars, personVars, ivVars,
    routeVars, batchVars, hopVars>>
notPerson == <<loopVars, forkVars, dispVars, intakeVars, fqVars, colVars, ivVars,
    routeVars, batchVars, hopVars>>
notIv == <<loopVars, forkVars, dispVars, intakeVars, fqVars, colVars, personVars,
    routeVars, batchVars, hopVars>>
\* mapEndpoints queues on the intake: it leaves the rest alone
notRoute == <<loopVars, forkVars, dispVars, fqVars, colVars, personVars, ivVars,
    batchVars, hopVars>>
notBatch == <<loopVars, forkVars, dispVars, intakeVars, fqVars, colVars, personVars,
    ivVars, routeVars, hopVars>>
notHop == <<loopVars, forkVars, dispVars, intakeVars, fqVars, colVars, personVars,
    ivVars, routeVars, batchVars>>

(***************************************************************************)
(* Helpers on sequences                                                    *)
(***************************************************************************)
Range(s) == {s[i] : i \in 1..Len(s)}

\* position of x in s (0 when absent); s holds no duplicates where this is used
IndexOf(s, x) == IF \E i \in 1..Len(s) : s[i] = x
                 THEN CHOOSE i \in 1..Len(s) : s[i] = x
                 ELSE 0

Before(s, a, b) == IndexOf(s, a) # 0 /\ IndexOf(s, b) # 0 /\ IndexOf(s, a) < IndexOf(s, b)

Inc2(n) == IF n >= 2 THEN 2 ELSE n + 1

(***************************************************************************)
(* OpenLoop                                                                *)
(***************************************************************************)
\* an OpenLoop that has not been constructed yet
NoLoop == [state |-> "none", prepared |-> FALSE, runAt |-> 0, owningTable |-> "A",
           assigned |-> FALSE, alive |-> FALSE]

\* a freshly constructed OpenLoop of table t, before queueCell
NewLoop(t) == [state |-> "running", prepared |-> FALSE, runAt |-> 0, owningTable |-> t,
               assigned |-> FALSE, alive |-> TRUE]

\* a deleted OpenLoop that no sequence of the scheduler points to any more: its
\* freed fields can no longer be read by anything
GoneLoop == [state |-> "gone", prepared |-> FALSE, runAt |-> 0, owningTable |-> "A",
             assigned |-> FALSE, alive |-> FALSE]

NoHist == [prep |-> 0, runs |-> 0, badRun |-> FALSE, prepUnassigned |-> FALSE,
           del |-> 0, pr |-> 0, by |-> "none"]

\* OpenLoop::checkTimer(now)
CheckTimer(w, t) == w.runAt <= t

(***************************************************************************)
(* AsyncLoop                                                               *)
(***************************************************************************)
LoopInit ==
    /\ queued = <<>>
    /\ active = <<>>
    /\ queueSize = 0
    /\ ol = [i \in Ids |-> NoLoop]
    /\ nextId = 1
    /\ now = 0
    /\ pc = "idle"
    /\ iter = <<>>
    /\ idx = 0
    /\ rerun = <<>>
    /\ runCount = 0
    /\ nextRun = -1
    /\ nextRunIn = -1
    /\ ret = FALSE
    /\ hist = [i \in Ids |-> NoHist]
    /\ tickStart = {}
    /\ considered = <<>>
    /\ triggered = FALSE
    /\ ranTrue = FALSE
    /\ condition = TRUE
    /\ prepareEnded = FALSE

\* delete w: the object is gone; the first delete records who destroyed it
Deleted(o) == [o EXCEPT !.alive = FALSE]

DeletedHist(h, how) == [h EXCEPT !.del = Inc2(@), !.by = IF @ = "none" THEN how ELSE @]

\* the ids some sequence still points to: queued, active, rerun and the part of
\* iter the range-for has not walked yet
Referenced(q, a, it, ix, rr) ==
    Range(q) \cup Range(a) \cup Range(rr) \cup {it[i] : i \in {j \in 1..Len(it) : j >= ix}}

Norm(o, q, a, it, ix, rr) ==
    [i \in Ids |-> IF o[i].alive \/ i \in Referenced(q, a, it, ix, rr) THEN o[i] ELSE GoneLoop]

\* a scheduleQueued that moves only the first queued loop to active
AdmitFirstOnly(a, q) == IF q = <<>> THEN a ELSE Append(a, Head(q))

\* scheduleQueued, line 95: active.insert(active.end(), queued...)
Admit(a, q) == a \o q

\* a run() that admits only when more than one loop waits
AdmitNeededWhenMany(qs) == qs > 1

\* run(), line 106: if (queueSize) scheduleQueued()
AdmitNeeded(qs) == qs # 0

\* a run() that goes on to w->run() whatever prepare() did
EndsInPrepareNever(prep, o) == FALSE

\* run(), lines 133-137: prepare() was called and left the state done
EndsInPrepare(prep, o) == prep /\ o.state = "done"

\* a gate that does not ask the condition
GateWithoutCondition(cond, o, t) == CheckTimer(o, t) /\ o.state = "running"

\* run(), lines 122-124: the gate of one loop
Gate(cond, o, t) == cond /\ CheckTimer(o, t) /\ o.state = "running"

\* a run() that ignores the prepared latch
NeedsPrepareAlways(o) == TRUE

\* run(), line 126: if (!w->prepared)
NeedsPrepare(o) == ~o.prepared

\* run(), lines 147-149: look for next scheduled (future) run operation
NextRunAfter(nr, o, t) ==
    IF o.state = "running" /\ o.runAt > t /\ (nr = -1 \/ o.runAt < nr) THEN o.runAt ELSE nr

\* a run() that puts the rescheduled loop in front
RescheduleInFront(rr, w) == <<w>> \o rr

\* run(), lines 152-155: a loop that is not done is rescheduled
Reschedule(rr, w) == Append(rr, w)

\* purgeByTable, lines 62-68 and 71-77: the loops a purge of table t keeps
\* a purge that empties the sequence
PurgeKeepsNone(s, t) == <<>>

PurgeKeeps(s, t) == SelectSeq(s, LAMBDA w : ol[w].owningTable # t)

PurgeDrops(s, t) == {s[i] : i \in {j \in 1..Len(s) : ol[s[j]].owningTable = t}}

\* number of times w occurs in s
Occurs(s, w) == Cardinality({i \in 1..Len(s) : s[i] = w})

\* a queueCell that leaves the flag of the worker as it finds it
TriggerKept(tr) == tr

\* line 53: asyncPool->workerInfo[worker].triggered = true
Trigger(tr) == TRUE

(* queueCell(work): under pendLock the loop is assigned and appended to     *)
(* queued and queueSize is incremented; after the lock the worker is        *)
(* triggered and notified. The OpenLoop is constructed by the caller right  *)
(* before, with the table it works for; cap is the number of loops that are *)
(* ever constructed.                                                        *)
QueueCell(cap, t) ==
    /\ UNCHANGED notLoop
    /\ triggered' = Trigger(triggered)
    /\ pc \in {"idle", "loop"}
    /\ nextId <= cap
    /\ ol' = [ol EXCEPT ![nextId] = [NewLoop(t) EXCEPT !.assigned = TRUE]]
    /\ queued' = Append(queued, nextId)
    /\ queueSize' = queueSize + 1
    /\ nextId' = nextId + 1
    /\ UNCHANGED <<active, now, pc, iter, idx, rerun, runCount, nextRun, nextRunIn, ret,
                   hist, tickStart, considered, ranTrue,
                   condition, prepareEnded>>

(* A freed OpenLoop is read: undefined behaviour. The worker may fault, may  *)
(* read the fields the freed memory still shows, may read anything; no      *)
(* outcome is chosen and nothing is modelled past this point, so the state  *)
(* keeps only that it happened.                                             *)
Undefined ==
    /\ pc' = "ub"
    /\ queued' = <<>>
    /\ active' = <<>>
    /\ queueSize' = 0
    /\ ol' = [i \in Ids |-> NoLoop]
    /\ nextId' = 1
    /\ now' = 0
    /\ iter' = <<>>
    /\ idx' = 0
    /\ rerun' = <<>>
    /\ runCount' = 0
    /\ nextRun' = -1
    /\ nextRunIn' = -1
    /\ ret' = FALSE
    /\ hist' = [i \in Ids |-> NoHist]
    /\ tickStart' = {}
    /\ considered' = <<>>
    /\ ranTrue' = FALSE
    /\ condition' = TRUE
    /\ prepareEnded' = FALSE

\* a sequence holds a pointer to a deleted OpenLoop
Dangling(s) == \E i \in 1..Len(s) : ~ol[s[i]].alive

(* purgeByTable(tableName): under pendLock, filters active and queued and   *)
(* deletes the loops of the table. The worker walks active in run() without *)
(* pendLock, and between its delete of a done loop (line 153) and line 159  *)
(* active still points to that loop: a purge then reads a freed object,     *)
(* which is undefined behaviour (pc = "ub": nothing is modelled past it).   *)
PurgeByTable(t) ==
    /\ UNCHANGED notLoop
    /\ UNCHANGED triggered
    /\ pc \in {"idle", "loop"}
    /\ IF Dangling(active)
       THEN Undefined
       ELSE LET gone == PurgeDrops(active, t) \cup PurgeDrops(queued, t)
            IN /\ active' = PurgeKeeps(active, t)
               /\ queued' = PurgeKeeps(queued, t)
               /\ ol' = Norm([i \in Ids |-> IF i \in gone THEN Deleted(ol[i]) ELSE ol[i]],
                              queued', active', iter, idx, rerun)
               /\ hist' = [i \in Ids |-> IF i \in gone
                                         THEN DeletedHist(hist[i], "purge")
                                         ELSE hist[i]]
               /\ UNCHANGED <<queueSize, nextId, now, pc, iter, idx, rerun, runCount,
                              nextRun, nextRunIn, ret, tickStart, considered, ranTrue,
                   condition, prepareEnded>>

(* release(): under pendLock, partitionRemoved() and delete for every loop  *)
(* of queued, then of active. Called by the destructor, on partition        *)
(* teardown, when the worker is not inside run(); nothing uses the          *)
(* Partition Loop afterwards. hist records the calls release makes, also    *)
(* those it makes on a loop that was freed before; what such a call does is *)
(* undefined and is not modelled.                                           *)
Release ==
    /\ UNCHANGED notLoop
    /\ UNCHANGED triggered
    /\ pc = "idle"
    /\ LET gone == Range(queued) \cup Range(active)
           n(w) == Occurs(queued, w) + Occurs(active, w)
       IN /\ ol' = Norm([i \in Ids |-> IF i \in gone THEN Deleted(ol[i]) ELSE ol[i]],
                         <<>>, <<>>, <<>>, 0, <<>>)
          /\ hist' = [i \in Ids |->
                        IF i \in gone
                        THEN [DeletedHist(hist[i], "release") EXCEPT
                                 !.pr = IF n(i) > 1 THEN 2 ELSE Inc2(@),
                                 !.del = IF n(i) > 1 THEN 2 ELSE @]
                        ELSE hist[i]]
    /\ queued' = <<>>
    /\ active' = <<>>
    /\ pc' = "released"
    /\ UNCHANGED <<queueSize, nextId, now, iter, idx, rerun, runCount, nextRun, nextRunIn,
                   ret, tickStart, considered, ranTrue,
                   condition, prepareEnded>>

(* The Open-Loop i ends outside prepare() and run(): its own code, which is  *)
(* not part of the scheduler, sets its state to done while it waits in      *)
(* queued or active, between two ticks.                                     *)
LoopEnds(i) ==
    /\ UNCHANGED notLoop
    /\ pc = "idle"
    /\ i \in Range(queued) \cup Range(active)
    /\ ol[i].alive
    /\ ol[i].state = "running"
    /\ ol' = [ol EXCEPT ![i].state = "done"]
    /\ UNCHANGED <<queued, active, queueSize, nextId, now, pc, iter, idx, rerun, runCount,
                   nextRun, nextRunIn, ret, hist, tickStart, considered, triggered,
                   ranTrue, condition, prepareEnded>>

(* The worker that owns the Partition Loop wakes on its condition variable  *)
(* and takes the trigger.                                                   *)
WorkerWakes ==
    /\ UNCHANGED notLoop
    /\ pc = "idle"
    /\ triggered
    /\ triggered' = FALSE
    /\ UNCHANGED <<queued, active, queueSize, ol, nextId, now, pc, iter, idx, rerun,
                   runCount, nextRun, nextRunIn, ret, hist, tickStart, considered, ranTrue,
                   condition, prepareEnded>>

(* run(nextRun), lines 103-114: admission of the queued loops, the idle     *)
(* return, and the start of the walk over active.                           *)
RunBegin(nr) ==
    /\ UNCHANGED notLoop
    /\ UNCHANGED triggered
    /\ pc = "idle"
    /\ LET adm == AdmitNeeded(queueSize)
           act == IF adm THEN Admit(active, queued) ELSE active
       IN /\ queued' = IF adm THEN <<>> ELSE queued
          /\ queueSize' = IF adm THEN queueSize - Len(queued) ELSE queueSize
          /\ active' = act
          /\ tickStart' = Range(active) \cup Range(queued)
          /\ considered' = <<>>
          /\ nextRun' = nr
          /\ nextRunIn' = nr
          /\ hist' = [i \in Ids |-> [hist[i] EXCEPT !.runs = 0]]
          /\ ranTrue' = FALSE
          /\ condition' = TRUE
          /\ prepareEnded' = FALSE
          /\ IF Len(act) = 0
             THEN /\ ret' = FALSE
                  /\ UNCHANGED <<pc, iter, idx, rerun, runCount>>
             ELSE /\ pc' = "loop"
                  /\ iter' = act
                  /\ idx' = 1
                  /\ rerun' = <<>>
                  /\ runCount' = 0
                  /\ ret' = FALSE
    /\ UNCHANGED <<ol, nextId, now>>

(* run(), lines 118-156: one pass of the range-for, for the loop w at idx.  *)
(* t is what Now() answers (the clock never goes back), cond what           *)
(* w->checkCondition() answers, pdone whether prepare() ends the loop, r    *)
(* what w->run() returns, fin whether run() ends the loop, ra whether run() *)
(* schedules itself at t + 1. A child that run() spawns is a QueueCell      *)
(* between two passes. A w that purgeByTable has deleted meanwhile is read  *)
(* after its delete: undefined behaviour (pc = "ub").                       *)
RunStep(t, cond, pdone, r, fin, ra) ==
    /\ UNCHANGED notLoop
    /\ UNCHANGED triggered
    /\ pc = "loop"
    /\ idx <= Len(iter)
    /\ t >= now
    /\ LET w == iter[idx]
           o == ol[w]
       IN IF ~o.alive
          THEN /\ t = now /\ ~cond /\ ~pdone /\ ~r /\ ~fin /\ ~ra
               /\ Undefined
          ELSE LET g == Gate(cond, o, t)
                   prep == g /\ NeedsPrepare(o)
                   o1 == IF prep
                         THEN [o EXCEPT !.prepared = TRUE,
                                        !.state = IF pdone THEN "done" ELSE @]
                         ELSE o
                   \* lines 133-137: done in prepare, delete and continue
                   early == EndsInPrepare(prep, o1)
                   runs == g /\ ~early
                   o2 == IF runs
                         THEN [o1 EXCEPT !.state = IF fin THEN "done" ELSE @,
                                         !.runAt = IF ra THEN t + 1 ELSE @]
                         ELSE o1
                   del == early \/ o2.state = "done"
                   h1 == [hist[w] EXCEPT
                             !.prep = IF prep THEN Inc2(@) ELSE @,
                             !.prepUnassigned = @ \/ (prep /\ ~o.assigned),
                             !.runs = IF runs THEN Inc2(@) ELSE @,
                             !.badRun = @ \/ (runs /\ ~o1.prepared)]
                   h2 == IF del THEN DeletedHist(h1, "done") ELSE h1
                   o3 == IF del THEN Deleted(o2) ELSE o2
               IN /\ prep \/ ~pdone
                  /\ runs \/ (~r /\ ~fin /\ ~ra)
                  /\ now' = t
                  /\ considered' = Append(considered, w)
                  /\ hist' = [hist EXCEPT ![w] = h2]
                  /\ runCount' = IF runs /\ r THEN runCount + 1 ELSE runCount
                  /\ ranTrue' = (ranTrue \/ (runs /\ r))
                  /\ condition' = cond
                  /\ prepareEnded' = (prep /\ pdone)
                  /\ nextRun' = IF runs THEN NextRunAfter(nextRun, o2, t) ELSE nextRun
                  /\ rerun' = IF del THEN rerun ELSE Reschedule(rerun, w)
                  /\ idx' = idx + 1
                  /\ ol' = Norm([ol EXCEPT ![w] = o3], queued, active, iter, idx', rerun')
                  /\ UNCHANGED <<queued, active, queueSize, nextId, pc, iter, ret,
                                 nextRunIn, tickStart>>

(* run(), lines 118-143, when w->run() at line 143 throws. run() has no      *)
(* handler, so the exception leaves run(): the local rerun is destroyed,    *)
(* active keeps the loops it had when the tick started, w stays as it was,  *)
(* and the walk stops (pc = "thrown"). What the caller of run() does with   *)
(* the exception is outside this model.                                     *)
RunThrows(t, cond) ==
    /\ UNCHANGED notLoop
    /\ UNCHANGED triggered
    /\ pc = "loop"
    /\ idx <= Len(iter)
    /\ t >= now
    /\ LET w == iter[idx]
           o == ol[w]
           prep == NeedsPrepare(o)
           o1 == IF prep THEN [o EXCEPT !.prepared = TRUE] ELSE o
       IN /\ o.alive
          /\ Gate(cond, o, t)
          /\ now' = t
          /\ hist' = [hist EXCEPT ![w] =
                         [@ EXCEPT !.prep = IF prep THEN Inc2(@) ELSE @,
                                   !.prepUnassigned = @ \/ (prep /\ ~o.assigned),
                                   !.runs = Inc2(@),
                                   !.badRun = @ \/ ~o1.prepared]]
          /\ ol' = Norm([ol EXCEPT ![w] = o1], queued, active, <<>>, 0, <<>>)
    /\ pc' = "thrown"
    /\ iter' = <<>>
    /\ idx' = 0
    /\ rerun' = <<>>
    /\ runCount' = 0
    /\ tickStart' = {}
    /\ considered' = <<>>
    /\ ranTrue' = FALSE
    /\ condition' = TRUE
    /\ prepareEnded' = FALSE
    /\ UNCHANGED <<queued, active, queueSize, nextId, nextRun, nextRunIn, ret>>

\* a run() that always reports activity
ReturnsTrue(rc) == TRUE

\* run(), line 162: return (!runCount) ? false : true
Returns(rc) == rc # 0

(* run(), lines 158-162: active = std::move(rerun) and the return value.    *)
RunEnd ==
    /\ UNCHANGED notLoop
    /\ UNCHANGED triggered
    /\ pc = "loop"
    /\ idx > Len(iter)
    /\ active' = rerun
    /\ ret' = Returns(runCount)
    /\ pc' = "idle"
    /\ iter' = <<>>
    /\ idx' = 0
    /\ rerun' = <<>>
    /\ runCount' = 0
    /\ ol' = Norm(ol, queued, rerun, <<>>, 0, <<>>)
    /\ hist' = [i \in Ids |-> [hist[i] EXCEPT !.runs = 0]]
    /\ tickStart' = {}
    /\ considered' = <<>>
    /\ ranTrue' = FALSE
    /\ condition' = TRUE
    /\ prepareEnded' = FALSE
    /\ UNCHANGED <<queued, queueSize, nextId, now, nextRun, nextRunIn>>

LoopNext ==
    \/ \E t \in Tables : QueueCell(MaxLoops, t)
    \/ \E t \in Tables : PurgeByTable(t)
    \/ Release
    \/ WorkerWakes
    \/ \E i \in Ids : LoopEnds(i)
    \/ \E nr \in {-1, MaxTime + 1} : RunBegin(nr)
    \/ \E t \in 0..MaxTime, cond, pdone, r, fin, ra \in BOOLEAN :
          RunStep(t, cond, pdone, r, fin, ra)
    \/ \E t \in 0..MaxTime, cond \in BOOLEAN : RunThrows(t, cond)
    \/ RunEnd

(* The Partition Loop with MaxPurgeLoops loops and a clock that stands      *)
(* still (purgeByTable reads no time): loops are queued, the worker runs    *)
(* its ticks, tables are purged.                                            *)
PurgeNext ==
    \/ \E t \in Tables : QueueCell(MaxPurgeLoops, t)
    \/ \E t \in Tables : PurgeByTable(t)
    \/ RunBegin(-1)
    \/ \E cond, pdone, r, fin, ra \in BOOLEAN : RunStep(now, cond, pdone, r, fin, ra)
    \/ RunEnd


(***************************************************************************)
(* A fork node answering one query: RpcQuery::event, segment, column and   *)
(* histogram from "We are a Fork!" on, the Shuttle and the Open-Loops of   *)
(* the query on the workers.                                               *)
(***************************************************************************)
NoCell == [status |-> "none", rs |-> 0]

ForkInit ==
    /\ fpc = "start"
    /\ endpoint = "event"
    /\ activeList = {}
    /\ resultSets = <<>>
    /\ cells = [p \in Partitions |-> NoCell]
    /\ wrun = [w \in Workers |-> -1]
    /\ expected = 0
    /\ responses = <<>>
    /\ completes = 0
    /\ released = 0
    /\ replies = <<>>
    /\ rsFreed = [i \in 1..WorkerCount |-> 0]
    /\ bufAlloc = 0
    /\ bufFreed = 0

\* the worker of a partition's AsyncLoop (loop->getWorkerId()): partitions are
\* assigned to workers by partition_id mod worker_count
WorkerOf(p) == p % WorkerCount

\* lines 563-568: one new ResultSet per worker; instance i is the i-th allocation
NewResultSets == [i \in 1..WorkerCount |-> i]

\* a factory that hands every Open-Loop the first ResultSet
CellResultSetShared(rs, p) == rs[1]

\* line 664 (930, 1340, 1775): resultSets[loop->getWorkerId()]
CellResultSet(rs, p) == rs[WorkerOf(p) + 1]

\* some response carries an error: r.data.error.inError()
InError(resp) == \E i \in 1..Len(resp) : resp[i]

(* The completion callbacks: what each does with the responses.             *)
(*   code     the status of the reply it sends                              *)
(*   freeRs   it deletes every worker-local ResultSet                       *)
(*   alloc    buffers it makes with multiSetToInternode                     *)
(*   free     buffers it gives back with freePtr                            *)
(*   release  calls of release_cb                                           *)
\* RpcQuery::event, lines 611-657
EventCallback(resp) ==
    IF InError(resp)
    THEN [code |-> 400, freeRs |-> TRUE, alloc |-> 0, free |-> 0, release |-> 1]
    ELSE [code |-> 200, freeRs |-> TRUE, alloc |-> 1, free |-> 1, release |-> 1]

\* RpcQuery::segment, lines 876-921: the error path returns without release_cb
SegmentCallback(resp) ==
    IF InError(resp)
    THEN [code |-> 400, freeRs |-> TRUE, alloc |-> 0, free |-> 0, release |-> 0]
    ELSE [code |-> 200, freeRs |-> TRUE, alloc |-> 1, free |-> 1, release |-> 1]

\* RpcQuery::column, lines 1292-1333: the success path does not free the buffer
ColumnCallback(resp) ==
    IF InError(resp)
    THEN [code |-> 400, freeRs |-> TRUE, alloc |-> 0, free |-> 0, release |-> 1]
    ELSE [code |-> 200, freeRs |-> TRUE, alloc |-> 1, free |-> 0, release |-> 1]

\* RpcQuery::histogram, lines 1717-1758
HistogramCallback(resp) ==
    IF InError(resp)
    THEN [code |-> 400, freeRs |-> TRUE, alloc |-> 0, free |-> 0, release |-> 1]
    ELSE [code |-> 200, freeRs |-> TRUE, alloc |-> 1, free |-> 1, release |-> 1]

Callback(ep, resp) ==
    CASE ep = "event" -> EventCallback(resp)
      [] ep = "segment" -> SegmentCallback(resp)
      [] ep = "column" -> ColumnCallback(resp)
      [] OTHER -> HistogramCallback(resp)

\* a Shuttle that waits for one response more than there are partitions
ShuttleExpectsOneMore(al) == Cardinality(al) + 1

\* line 610 (875, 1291, 1716): the Shuttle is constructed with activeList.size()
ShuttleExpects(al) == Cardinality(al)

\* a handler that never takes the "nothing active" path
NothingActiveNever(al) == FALSE

\* line 571 (847, 1257, 1678): if (!activeList.size())
NothingActive(al) == al = {}

\* the buffers the "nothing active" path of an endpoint gives back (lines 587,
\* 864, 1271, 1695)
EmptyReplyFrees(ep) == 1

(* The handler, acting as a fork, for a request on endpoint ep while this   *)
(* node owns the partitions al. It allocates the ResultSets; with nothing   *)
(* active it replies at once with an empty buffer; otherwise it creates the *)
(* Shuttle, expecting one response per partition, and cellFactory makes one *)
(* Open-Loop per partition and queues it on that partition's loop.          *)
ForkHandle(ep, al) ==
    /\ UNCHANGED notFork
    /\ fpc = "start"
    /\ endpoint' = ep
    /\ activeList' = al
    /\ resultSets' = NewResultSets
    /\ IF NothingActive(al)
       THEN /\ fpc' = "replied"
            /\ replies' = Append(replies, 200)
            /\ bufAlloc' = bufAlloc + 1
            /\ bufFreed' = bufFreed + EmptyReplyFrees(ep)
            /\ rsFreed' = [i \in 1..WorkerCount |-> rsFreed[i] + 1]
            /\ UNCHANGED <<cells, expected>>
       ELSE /\ fpc' = "forked"
            /\ expected' = ShuttleExpects(al)
            /\ cells' = [p \in Partitions |->
                            IF p \in al
                            THEN [status |-> "queued", rs |-> CellResultSet(resultSets', p)]
                            ELSE NoCell]
            /\ UNCHANGED <<replies, bufAlloc, bufFreed, rsFreed>>
    /\ UNCHANGED <<wrun, responses, completes, released>>

\* the worker of partition p enters run() of p's Open-Loop; a worker runs one
\* Open-Loop at a time
CellEnter(p) ==
    /\ UNCHANGED notFork
    /\ fpc = "forked"
    /\ cells[p].status = "queued"
    /\ wrun[WorkerOf(p)] = -1
    /\ cells' = [cells EXCEPT ![p].status = "running"]
    /\ wrun' = [wrun EXCEPT ![WorkerOf(p)] = p]
    /\ UNCHANGED <<fpc, endpoint, activeList, resultSets, expected, responses, completes,
                   released, replies, rsFreed, bufAlloc, bufFreed>>

\* run() of p's Open-Loop returns with more to do
CellYield(p) ==
    /\ UNCHANGED notFork
    /\ cells[p].status = "running"
    /\ cells' = [cells EXCEPT ![p].status = "queued"]
    /\ wrun' = [wrun EXCEPT ![WorkerOf(p)] = -1]
    /\ UNCHANGED <<fpc, endpoint, activeList, resultSets, expected, responses, completes,
                   released, replies, rsFreed, bufAlloc, bufFreed>>

(* p's Open-Loop ends and reports to the Shuttle, with an error or not. The *)
(* Shuttle appends the response; when it has as many as it expects it calls *)
(* the completion callback, on this worker.                                 *)
CellFinish(p, err) ==
    /\ UNCHANGED notFork
    /\ cells[p].status = "running"
    /\ cells' = [cells EXCEPT ![p].status = "reported"]
    /\ wrun' = [wrun EXCEPT ![WorkerOf(p)] = -1]
    /\ responses' = Append(responses, err)
    /\ IF Len(responses') = expected
       THEN LET cb == Callback(endpoint, responses')
            IN /\ completes' = completes + 1
               /\ replies' = Append(replies, cb.code)
               /\ rsFreed' = [i \in 1..WorkerCount |->
                                 IF cb.freeRs THEN rsFreed[i] + 1 ELSE rsFreed[i]]
               /\ bufAlloc' = bufAlloc + cb.alloc
               /\ bufFreed' = bufFreed + cb.free
               /\ released' = released + cb.release
       ELSE UNCHANGED <<completes, replies, rsFreed, bufAlloc, bufFreed, released>>
    /\ UNCHANGED <<fpc, endpoint, activeList, resultSets, expected>>

ForkNext ==
    \/ \E ep \in Endpoints, al \in SUBSET Partitions : ForkHandle(ep, al)
    \/ \E p \in Partitions : CellEnter(p)
    \/ \E p \in Partitions : CellYield(p)
    \/ \E p \in Partitions, err \in BOOLEAN : CellFinish(p, err)

(* The table of the query is dropped while the query runs: purgeByTable on  *)
(* the Partition Loop of p (asyncloop.cpp, lines 57-79) deletes p's         *)
(* Open-Loop, which waits there for its next turn. The loop is deleted      *)
(* without partitionRemoved() and reports nothing to the Shuttle.           *)
CellPurged(p) ==
    /\ UNCHANGED notFork
    /\ fpc = "forked"
    /\ cells[p].status = "queued"
    /\ cells' = [cells EXCEPT ![p].status = "purged"]
    /\ UNCHANGED <<fpc, endpoint, activeList, resultSets, wrun, expected, responses,
                   completes, released, replies, rsFreed, bufAlloc, bufFreed>>

\* a fork node answering a query, with table drops
ForkPurgeNext ==
    \/ \E ep \in Endpoints, al \in SUBSET Partitions : ForkHandle(ep, al)
    \/ \E p \in Partitions : CellEnter(p)
    \/ \E p \in Partitions : CellYield(p)
    \/ \E p \in Partitions, err \in BOOLEAN : CellFinish(p, err)
    \/ \E p \in Partitions : CellPurged(p)

(***************************************************************************)
(* queryDispatch: the sections of a batch request sent to this node, a few *)
(* at a time. The caller's thread runs queryDispatch; the response of a    *)
(* section is delivered to completeCallback on another thread. sendOne is  *)
(* entered by the caller and by every completeCallback, and re-enters      *)
(* itself after each dispatch.                                             *)
(***************************************************************************)
\* const auto runMax = 4
runMax == 4

DispInit ==
    /\ nSec = 0
    /\ qiter = 0
    /\ doneSending = FALSE
    /\ receivedCount = 0
    /\ sendCount = 0
    /\ running = 0
    /\ routeError = FALSE
    /\ dpc = [t \in Threads |-> IF t = 0 THEN "start" ELSE "idle"]
    /\ claim = [t \in Threads |-> 0]
    /\ sect = [k \in Sections |-> "unsent"]
    /\ seenSend = 0

\* sub-queries dispatched and not yet answered
InFlight == {k \in Sections : sect[k] = "inflight"}

\* where a thread goes when its sendOne returns: the caller to the wait loop,
\* a completeCallback to its end
AfterSendOne(t) == IF t = 0 THEN "wait" ELSE "done"

\* line 1820: sendOne gives up when this many are running
AtCapacity(r) == r > runMax

(* The locals of queryDispatch are gone once it has returned; sendOne and   *)
(* completeCallback hold references to them. A thread that goes on after    *)
(* the return has undefined behaviour: no outcome is chosen and nothing is  *)
(* modelled past this point.                                                *)
DispUndefined ==
    /\ nSec' = 0
    /\ qiter' = 0
    /\ doneSending' = FALSE
    /\ receivedCount' = 0
    /\ sendCount' = 0
    /\ running' = 0
    /\ routeError' = FALSE
    /\ dpc' = [t \in Threads |-> "ub"]
    /\ claim' = [t \in Threads |-> 0]
    /\ sect' = [k \in Sections |-> "unsent"]
    /\ seenSend' = 0

\* queryDispatch is called with n sections (lines 1780-1794, 1884)
QueryDispatch(n) ==
    /\ UNCHANGED notDisp
    /\ dpc[0] = "start"
    /\ nSec' = n
    /\ dpc' = [dpc EXCEPT ![0] = "sendOne"]
    /\ UNCHANGED <<qiter, doneSending, receivedCount, sendCount, running, routeError,
                   claim, sect, seenSend>>

\* sendOne, the part under the lock (lines 1817-1866), on thread t
SendOne(t) ==
    /\ UNCHANGED notDisp
    /\ dpc[t] = "sendOne"
    /\ IF t # 0 /\ dpc[0] = "returned"
       THEN DispUndefined
       ELSE IF AtCapacity(running)
       THEN /\ dpc' = [dpc EXCEPT ![t] = AfterSendOne(t)]
            /\ UNCHANGED <<nSec, qiter, doneSending, receivedCount, sendCount, running,
                           routeError, claim, sect, seenSend>>
       ELSE IF qiter = nSec
       THEN /\ doneSending' = TRUE
            /\ dpc' = [dpc EXCEPT ![t] = AfterSendOne(t)]
            /\ UNCHANGED <<nSec, qiter, receivedCount, sendCount, running, routeError,
                           claim, sect, seenSend>>
       ELSE /\ running' = running + 1
            /\ sendCount' = sendCount + 1
            /\ qiter' = qiter + 1
            /\ claim' = [claim EXCEPT ![t] = qiter + 1]
            /\ sect' = [sect EXCEPT ![qiter + 1] = "claimed"]
            /\ dpc' = [dpc EXCEPT ![t] = "dispatch"]
            /\ UNCHANGED <<nSec, doneSending, receivedCount, routeError, seenSend>>

\* sendOne after the lock (lines 1869-1881), on thread t: dispatchAsync succeeds
\* or not, and sendOne is entered again
DispatchAsync(t, success) ==
    /\ UNCHANGED notDisp
    /\ dpc[t] = "dispatch"
    /\ IF t # 0 /\ dpc[0] = "returned"
       THEN DispUndefined
       ELSE /\ sect' = [sect EXCEPT ![claim[t]] = IF success THEN "inflight" ELSE "failed"]
            /\ routeError' = (routeError \/ ~success)
            /\ claim' = [claim EXCEPT ![t] = 0]
            /\ dpc' = [dpc EXCEPT ![t] = "sendOne"]
            /\ UNCHANGED <<nSec, qiter, doneSending, receivedCount, sendCount, running,
                           seenSend>>

\* completeCallback (lines 1796-1808) with the response of section k, then
\* sendOne on that thread
CompleteCallback(k) ==
    /\ UNCHANGED notDisp
    /\ sect[k] = "inflight"
    /\ dpc[k] = "idle"
    /\ IF dpc[0] = "returned"
       THEN DispUndefined
       ELSE /\ running' = running - 1
            /\ receivedCount' = receivedCount + 1
            /\ sect' = [sect EXCEPT ![k] = "answered"]
            /\ dpc' = [dpc EXCEPT ![k] = "sendOne"]
            /\ UNCHANGED <<nSec, qiter, doneSending, sendCount, routeError, claim, seenSend>>

\* the wait loop (line 1886), first half of its test: doneSending, then
\* sendCount, read without the lock
WaitTest ==
    /\ UNCHANGED notDisp
    /\ dpc[0] = "wait"
    /\ IF doneSending
       THEN /\ dpc' = [dpc EXCEPT ![0] = "returned"]
            /\ UNCHANGED seenSend
       ELSE /\ dpc' = [dpc EXCEPT ![0] = "compare"]
            /\ seenSend' = sendCount
    /\ UNCHANGED <<nSec, qiter, doneSending, receivedCount, sendCount, running, routeError,
                   claim, sect>>

\* the wait loop, second half: receivedCount is read and compared; the loop
\* sleeps and tests again, or queryDispatch returns (line 1891)
WaitCompare ==
    /\ UNCHANGED notDisp
    /\ dpc[0] = "compare"
    /\ dpc' = [dpc EXCEPT ![0] = IF seenSend # receivedCount THEN "wait" ELSE "returned"]
    /\ seenSend' = 0
    /\ UNCHANGED <<nSec, qiter, doneSending, receivedCount, sendCount, running, routeError,
                   claim, sect>>

DispNext ==
    \/ \E n \in 0..MaxSections : QueryDispatch(n)
    \/ \E t \in Threads : SendOne(t)
    \/ \E t \in Threads, success \in BOOLEAN : DispatchAsync(t, success)
    \/ \E k \in Sections : CompleteCallback(k)
    \/ WaitTest
    \/ WaitCompare

(***************************************************************************)
(* The HTTP intake: the two queues of messages, and the workers that take  *)
(* messages from them and dispatch them (webWorker::runner). Every         *)
(* function that touches a queue does so in one critical section under     *)
(* messagesLock, which is one step here: every state is one in which       *)
(* messagesLock is free.                                                   *)
(***************************************************************************)
\* makeWorkers: for (auto i = 0; i < 8; i++) queryWorkers.emplace_back(...)
QueryWorkerCount == 8

\* makeWorkers: for (auto i = 0; i < 32; i++) otherWorkers.emplace_back(...)
OtherWorkerCount == 32

\* runner: server->runningQueries >= 3
QueryCap == 3

\* what Dispatch does with a message. "plain": the handler returns by itself.
\* "GET", "POST": an originator query received with that method, whose handler
\* calls forkQuery and waits for the fork replies. "ForkGET", "ForkPOST": the
\* fork=true request such an originator has sent to its own node.
OriginKinds == {"GET", "POST"}

ForkKinds == {"ForkGET", "ForkPOST"}

MessageKinds == {"plain"} \cup OriginKinds \cup ForkKinds

\* the originator a fork request comes from
OriginOf(k) == IF k = "ForkGET" THEN "GET" ELSE "POST"

\* where a worker can be in webWorker::runner: "wait" (about to take its ready
\* lock and test the predicate), "blocking" (the predicate was false, about to
\* block in wait(), the lock in hand), "asleep" (blocked in wait()), "taken"
\* (a message taken, the lock given back), "dispatch" (inside Dispatch),
\* "awaiting" (inside Dispatch, in forkQuery, waiting for the fork replies);
\* the last three with the kind of the message in hand
At(a, k) == IF k = "plain" THEN a ELSE a \o k

Positions ==
    {"wait", "blocking", "asleep"}
        \cup {At(a, k) : a \in {"taken", "dispatch"}, k \in MessageKinds}
        \cup {At("awaiting", k) : k \in OriginKinds}

\* the workers of a kind are threads running the same code: the state keeps
\* how many of them are at each position
IntakeInit ==
    /\ queryMessages = <<>>
    /\ otherMessages = <<>>
    /\ queryMessagesQueued = 0
    /\ otherMessagesQueued = 0
    /\ runningQueries = 0
    /\ jobsRun = 0
    /\ wpc = [p \in Positions |-> IF p = "wait" THEN QueryWorkerCount ELSE 0]
    /\ owpc = [p \in Positions |-> IF p = "wait" THEN OtherWorkerCount ELSE 0]
    /\ nextMessage = 1
    /\ clients = 0
    /\ gotQuery = <<>>
    /\ gotOther = <<>>
    /\ forkReplied = [k \in OriginKinds |-> 0]

\* one worker goes from position p to position q
Moves(wp, p, q) == [wp EXCEPT ![p] = @ - 1, ![q] = @ + 1]

\* MakeMessage: the message made for a request whose handler is of kind k
Message(k) == [id |-> nextMessage, kind |-> k]

\* the predicate a query worker waits for under queryReadyLock (lines 76-81)
QueryReady(q, r) == q # 0 /\ r < QueryCap

\* the predicate another worker waits for under otherReadyLock (lines 98-103)
OtherReady(q) == q # 0

\* the number of query workers inside openset::comms::Dispatch
Dispatching ==
    wpc["dispatch"] + wpc["dispatchGET"] + wpc["dispatchPOST"] + wpc["dispatchForkGET"]
        + wpc["dispatchForkPOST"] + wpc["awaitingGET"] + wpc["awaitingPOST"]

\* a ready lock is held by the worker that is between its test of the
\* predicate and its blocking in wait(); taking a message is one step
ReadyLockFree(wp) == wp["blocking"] = 0

\* a notify_one that reaches nobody
NotifyNobody(wp) == wp

\* lines 124 and 132, notify_one(): one of the workers blocked in wait() is
\* unblocked and will test the predicate again; with none blocked the
\* notification is lost
NotifyOne(wp) == IF wp["asleep"] # 0 THEN Moves(wp, "asleep", "wait") ELSE wp

\* lines 123 and 131: queryMessages.emplace(message)
Emplace(msgs, m) == Append(msgs, m)

\* a getter that leaves the message at the front of the queue
PopNothing(msgs) == msgs

\* lines 144 and 159: the queue after pop()
Pop(msgs) == Tail(msgs)

\* HttpServe::queueQueryMessage (lines 119-125), which holds messagesLock and
\* not queryReadyLock, with the message of a request whose handler returns by
\* itself
QueueQueryMessage(cap) ==
    /\ UNCHANGED notIntake
    /\ clients < cap
    /\ clients' = clients + 1
    /\ nextMessage' = nextMessage + 1
    /\ queryMessagesQueued' = queryMessagesQueued + 1
    /\ queryMessages' = Emplace(queryMessages, Message("plain"))
    /\ wpc' = NotifyOne(wpc)
    /\ UNCHANGED <<otherMessages, otherMessagesQueued, runningQueries, jobsRun, owpc,
                   gotQuery, gotOther, forkReplied>>

\* HttpServe::queueOtherMessage (lines 127-133), with such a message
QueueOtherMessage(cap) ==
    /\ UNCHANGED notIntake
    /\ clients < cap
    /\ clients' = clients + 1
    /\ nextMessage' = nextMessage + 1
    /\ otherMessagesQueued' = otherMessagesQueued + 1
    /\ otherMessages' = Emplace(otherMessages, Message("plain"))
    /\ owpc' = NotifyOne(owpc)
    /\ UNCHANGED <<queryMessages, queryMessagesQueued, runningQueries, jobsRun, wpc,
                   gotQuery, gotOther, forkReplied>>

\* runner, lines 74-81: under queryReadyLock, a worker finds no message queued
\* or three queries running: it is about to block in wait(), the lock in hand
RunnerWaits ==
    /\ UNCHANGED notIntake
    /\ wpc["wait"] # 0
    /\ ReadyLockFree(wpc)
    /\ ~QueryReady(queryMessagesQueued, runningQueries)
    /\ wpc' = Moves(wpc, "wait", "blocking")
    /\ UNCHANGED <<queryMessages, otherMessages, queryMessagesQueued, otherMessagesQueued,
                   runningQueries, jobsRun, owpc, nextMessage, clients, gotQuery,
                   gotOther, forkReplied>>

\* runner, line 77: wait() gives the lock back and blocks, in one step
RunnerBlocks ==
    /\ UNCHANGED notIntake
    /\ wpc["blocking"] # 0
    /\ wpc' = Moves(wpc, "blocking", "asleep")
    /\ UNCHANGED <<queryMessages, otherMessages, queryMessagesQueued, otherMessagesQueued,
                   runningQueries, jobsRun, owpc, nextMessage, clients, gotQuery,
                   gotOther, forkReplied>>

\* runner, line 77: wait() may unblock without a notification (a spurious
\* wake-up); the worker tests the predicate again
RunnerWakes ==
    /\ UNCHANGED notIntake
    /\ wpc["asleep"] # 0
    /\ wpc' = Moves(wpc, "asleep", "wait")
    /\ UNCHANGED <<queryMessages, otherMessages, queryMessagesQueued, otherMessagesQueued,
                   runningQueries, jobsRun, owpc, nextMessage, clients, gotQuery,
                   gotOther, forkReplied>>

\* runner, lines 74-86, with getQueuedQueryMessage (lines 149-161): under
\* queryReadyLock, a worker finds a message queued and fewer than three queries
\* running, takes the message at the front, leaves the lock
RunnerTake ==
    /\ UNCHANGED notIntake
    /\ wpc["wait"] # 0
    /\ ReadyLockFree(wpc)
    /\ QueryReady(queryMessagesQueued, runningQueries)
    /\ IF queryMessages = <<>>
       THEN \* getQueuedQueryMessage returns nullptr: continue
            UNCHANGED <<queryMessages, queryMessagesQueued, wpc, gotQuery>>
       ELSE /\ queryMessagesQueued' = queryMessagesQueued - 1
            /\ queryMessages' = Pop(queryMessages)
            /\ gotQuery' = Append(gotQuery, Head(queryMessages).id)
            /\ wpc' = Moves(wpc, "wait", At("taken", Head(queryMessages).kind))
    /\ UNCHANGED <<otherMessages, otherMessagesQueued, runningQueries, jobsRun, owpc,
                   nextMessage, clients, gotOther, forkReplied>>

\* runner, lines 88-90: ++jobsRun, ++runningQueries, and into Dispatch with a
\* message of kind k
RunnerDispatch(k) ==
    /\ UNCHANGED notIntake
    /\ wpc[At("taken", k)] # 0
    /\ jobsRun' = jobsRun + 1
    /\ runningQueries' = runningQueries + 1
    /\ wpc' = Moves(wpc, At("taken", k), At("dispatch", k))
    /\ UNCHANGED <<queryMessages, otherMessages, queryMessagesQueued, otherMessagesQueued,
                   owpc, nextMessage, clients, gotQuery, gotOther, forkReplied>>

\* runner, line 91: the Dispatch of a message whose handler returns by itself
\* has returned, --runningQueries, and around again. The reply of a fork
\* request is counted as sent when its Dispatch returns.
RunnerDone(k) ==
    /\ UNCHANGED notIntake
    /\ k \notin OriginKinds
    /\ wpc[At("dispatch", k)] # 0
    /\ runningQueries' = runningQueries - 1
    /\ wpc' = Moves(wpc, At("dispatch", k), "wait")
    /\ forkReplied' = IF k \in ForkKinds
                      THEN [forkReplied EXCEPT ![OriginOf(k)] = @ + 1]
                      ELSE forkReplied
    /\ UNCHANGED <<queryMessages, otherMessages, queryMessagesQueued, otherMessagesQueued,
                   jobsRun, owpc, nextMessage, clients, gotQuery, gotOther>>

\* runner, lines 97-103: under otherReadyLock, a worker finds no message
\* queued: it is about to block in wait(), the lock in hand
OtherWaits ==
    /\ UNCHANGED notIntake
    /\ owpc["wait"] # 0
    /\ ReadyLockFree(owpc)
    /\ ~OtherReady(otherMessagesQueued)
    /\ owpc' = Moves(owpc, "wait", "blocking")
    /\ UNCHANGED <<queryMessages, otherMessages, queryMessagesQueued, otherMessagesQueued,
                   runningQueries, jobsRun, wpc, nextMessage, clients, gotQuery,
                   gotOther, forkReplied>>

\* runner, line 99: wait() gives the lock back and blocks, in one step
OtherBlocks ==
    /\ UNCHANGED notIntake
    /\ owpc["blocking"] # 0
    /\ owpc' = Moves(owpc, "blocking", "asleep")
    /\ UNCHANGED <<queryMessages, otherMessages, queryMessagesQueued, otherMessagesQueued,
                   runningQueries, jobsRun, wpc, nextMessage, clients, gotQuery,
                   gotOther, forkReplied>>

\* runner, line 99: a spurious wake-up of wait()
OtherWakes ==
    /\ UNCHANGED notIntake
    /\ owpc["asleep"] # 0
    /\ owpc' = Moves(owpc, "asleep", "wait")
    /\ UNCHANGED <<queryMessages, otherMessages, queryMessagesQueued, otherMessagesQueued,
                   runningQueries, jobsRun, wpc, nextMessage, clients, gotQuery,
                   gotOther, forkReplied>>

\* runner, lines 97-108, with getQueuedOtherMessage (lines 135-147): under
\* otherReadyLock, a worker finds a message queued and takes the one at the
\* front
OtherTake ==
    /\ UNCHANGED notIntake
    /\ owpc["wait"] # 0
    /\ ReadyLockFree(owpc)
    /\ OtherReady(otherMessagesQueued)
    /\ IF otherMessages = <<>>
       THEN \* getQueuedOtherMessage returns nullptr: continue
            UNCHANGED <<otherMessages, otherMessagesQueued, owpc, gotOther>>
       ELSE /\ otherMessagesQueued' = otherMessagesQueued - 1
            /\ otherMessages' = Pop(otherMessages)
            /\ gotOther' = Append(gotOther, Head(otherMessages).id)
            /\ owpc' = Moves(owpc, "wait", At("taken", Head(otherMessages).kind))
    /\ UNCHANGED <<queryMessages, queryMessagesQueued, runningQueries, jobsRun, wpc,
                   nextMessage, clients, gotQuery, forkReplied>>

\* runner, lines 110-111: ++jobsRun and into Dispatch with a message of kind k
OtherDispatch(k) ==
    /\ UNCHANGED notIntake
    /\ owpc[At("taken", k)] # 0
    /\ jobsRun' = jobsRun + 1
    /\ owpc' = Moves(owpc, At("taken", k), At("dispatch", k))
    /\ UNCHANGED <<queryMessages, otherMessages, queryMessagesQueued, otherMessagesQueued,
                   runningQueries, wpc, nextMessage, clients, gotQuery, gotOther,
                   forkReplied>>

\* runner, line 111: the Dispatch of a message whose handler returns by itself
\* has returned, and around again
OtherDone(k) ==
    /\ UNCHANGED notIntake
    /\ k \notin OriginKinds
    /\ owpc[At("dispatch", k)] # 0
    /\ owpc' = Moves(owpc, At("dispatch", k), "wait")
    /\ forkReplied' = IF k \in ForkKinds
                      THEN [forkReplied EXCEPT ![OriginOf(k)] = @ + 1]
                      ELSE forkReplied
    /\ UNCHANGED <<queryMessages, otherMessages, queryMessagesQueued, otherMessagesQueued,
                   runningQueries, jobsRun, wpc, nextMessage, clients, gotQuery, gotOther>>

\* the query queue and its workers
IntakeNext ==
    \/ QueueQueryMessage(MaxMessages)
    \/ RunnerWaits
    \/ RunnerBlocks
    \/ RunnerWakes
    \/ RunnerTake
    \/ \E k \in MessageKinds : RunnerDispatch(k)
    \/ \E k \in MessageKinds : RunnerDone(k)

\* both queues and their workers
QueuesNext ==
    \/ QueueQueryMessage(MaxQueued)
    \/ QueueOtherMessage(MaxQueued)
    \/ RunnerWaits
    \/ RunnerBlocks
    \/ RunnerWakes
    \/ RunnerTake
    \/ \E k \in MessageKinds : RunnerDispatch(k)
    \/ \E k \in MessageKinds : RunnerDone(k)
    \/ OtherWaits
    \/ OtherBlocks
    \/ OtherWakes
    \/ OtherTake
    \/ \E k \in MessageKinds : OtherDispatch(k)
    \/ \E k \in MessageKinds : OtherDone(k)

(***************************************************************************)
(* forkQuery: the originator sends the request to every node with          *)
(* fork=true, walks the responses, and merges them or gives up. The        *)
(* handler that called it replies 200 with the merged JSON when it gets    *)
(* one; each return of forkQuery below is followed by that step of the     *)
(* handler.                                                                *)
(***************************************************************************)
(* A response of a node, by what forkQuery looks at:                        *)
(*   data       r.data and r.length are both non-zero                       *)
(*   internode  ResultMuxDemux::isInternode(r.data, r.length)               *)
(*   ok         r.code == success_ok                                        *)
(*   brace      r.data[0] == '{'                                            *)
(*   error      the body parses to JSON with an /error member               *)
ResponseKinds ==
    { [data |-> TRUE,  internode |-> TRUE,  ok |-> TRUE,  brace |-> FALSE, error |-> FALSE],
      [data |-> FALSE, internode |-> FALSE, ok |-> TRUE,  brace |-> FALSE, error |-> FALSE],
      [data |-> FALSE, internode |-> FALSE, ok |-> FALSE, brace |-> FALSE, error |-> FALSE],
      [data |-> TRUE,  internode |-> FALSE, ok |-> FALSE, brace |-> TRUE,  error |-> TRUE],
      [data |-> TRUE,  internode |-> FALSE, ok |-> FALSE, brace |-> TRUE,  error |-> FALSE],
      [data |-> TRUE,  internode |-> FALSE, ok |-> FALSE, brace |-> FALSE, error |-> FALSE],
      [data |-> TRUE,  internode |-> FALSE, ok |-> TRUE,  brace |-> TRUE,  error |-> FALSE] }

\* sequences of responses up to MaxResponses long
ResponseLists == UNION {[1..n -> ResponseKinds] : n \in 0..MaxResponses}

FqInit ==
    /\ fqpc = "start"
    /\ fqResponses = <<>>
    /\ fqRoute0 = FALSE
    /\ fqRouteError = FALSE
    /\ fqIdx = 0
    /\ fqSets = 0
    /\ fqReplies = <<>>
    /\ fqRet = "none"
    /\ fqMerged = FALSE
    /\ fqReleased = 0
    /\ fqDeleted = [i \in 1..MaxResponses |-> 0]
    /\ fqUsedFreed = FALSE

\* lines 104-110: the response has no data
EmptyReply(r) == ~r.data

\* lines 111-126: a non-OK response whose body is JSON with /error
RelayedError(r) == r.data /\ ~r.ok /\ r.brace /\ r.error

\* lines 111-137: a non-OK response with data but without such a body sets
\* result.routeError
SetsRouteError(r) == r.data /\ ~r.ok /\ ~(r.brace /\ r.error)

\* a handler that replies whatever forkQuery returned
HandlerRepliesAlways(json) == TRUE

\* lines 536-537 (and 832, 1226, 1640): if (json) message->reply(success_ok, *json)
HandlerReplies(json) == json = "json"

\* the replies on the message once forkQuery has returned json to the handler
AfterReturn(sent, json) ==
    IF HandlerReplies(json) THEN Append(sent, [kind |-> "ok_200", of |-> 0]) ELSE sent

\* a clean-up that deletes no ResultSet
DeleteNone(del, n) == del

\* lines 130-131, 153-154, 170-171: for (auto res : resultSets) delete res, with
\* n ResultSets in resultSets
DeleteAll(del, n) == [i \in 1..MaxResponses |-> IF i <= n THEN del[i] + 1 ELSE del[i]]

\* lines 81-92: dispatchCluster has returned responses rs, with routeError re
ForkQueryCall(rs, re) ==
    /\ UNCHANGED notFq
    /\ fqpc = "start"
    /\ fqpc' = "loop"
    /\ fqResponses' = rs
    /\ fqRoute0' = re
    /\ fqRouteError' = re
    /\ fqIdx' = 1
    /\ UNCHANGED <<fqSets, fqReplies, fqRet, fqMerged, fqReleased, fqDeleted, fqUsedFreed>>

\* lines 97-158: one pass of the for over result.responses
ForkQueryStep ==
    /\ UNCHANGED notFq
    /\ fqpc = "loop"
    /\ fqIdx <= Len(fqResponses)
    /\ LET r == fqResponses[fqIdx]
       IN IF r.internode
          THEN \* lines 99-100, then the test of line 141
               /\ fqSets' = fqSets + 1
               /\ IF fqRouteError
                  THEN /\ fqReplies' = AfterReturn(Append(fqReplies,
                                          [kind |-> "route_error", of |-> fqIdx]), "null")
                       /\ fqReleased' = fqReleased + 1
                       /\ fqDeleted' = DeleteAll(fqDeleted, fqSets')
                       /\ fqRet' = "null"
                       /\ fqpc' = "done"
                       /\ UNCHANGED fqIdx
                  ELSE /\ fqIdx' = fqIdx + 1
                       /\ UNCHANGED <<fqReplies, fqReleased, fqDeleted, fqRet, fqpc>>
               /\ UNCHANGED <<fqRouteError>>
          ELSE IF RelayedError(r)
          THEN \* lines 122-133
               /\ fqReplies' = AfterReturn(Append(fqReplies,
                                  [kind |-> "relay_400", of |-> fqIdx]), "null")
               /\ fqReleased' = fqReleased + 1
               /\ fqDeleted' = DeleteAll(fqDeleted, fqSets)
               /\ fqRet' = "null"
               /\ fqpc' = "done"
               /\ UNCHANGED <<fqIdx, fqSets, fqRouteError>>
          ELSE LET re == fqRouteError \/ SetsRouteError(r)
                   said == IF EmptyReply(r)
                           THEN Append(fqReplies, [kind |-> "internode_error", of |-> fqIdx])
                           ELSE fqReplies
               IN /\ fqRouteError' = re
                  /\ IF re
                     THEN /\ fqReplies' = AfterReturn(Append(said,
                                             [kind |-> "route_error", of |-> fqIdx]), "null")
                          /\ fqReleased' = fqReleased + 1
                          /\ fqDeleted' = DeleteAll(fqDeleted, fqSets)
                          /\ fqRet' = "null"
                          /\ fqpc' = "done"
                          /\ UNCHANGED fqIdx
                     ELSE /\ fqReplies' = said
                          /\ fqIdx' = fqIdx + 1
                          /\ UNCHANGED <<fqReleased, fqDeleted, fqRet, fqpc>>
                  /\ UNCHANGED fqSets
    /\ UNCHANGED <<fqResponses, fqRoute0, fqMerged, fqUsedFreed>>

\* lines 160-278: after the for, resultSetToJson on the ResultSets, the responses
\* released, the ResultSets deleted, then sort and trim on the JSON and its
\* return; then the handler (lines 536-538)
ForkQueryMerge ==
    /\ UNCHANGED notFq
    /\ fqpc = "loop"
    /\ fqIdx > Len(fqResponses)
    /\ fqMerged' = TRUE
    /\ fqUsedFreed' = \E i \in 1..fqSets : fqDeleted[i] # 0
    /\ fqReleased' = fqReleased + 1
    /\ fqDeleted' = DeleteAll(fqDeleted, fqSets)
    /\ fqRet' = "json"
    /\ fqReplies' = AfterReturn(fqReplies, "json")
    /\ fqpc' = "done"
    /\ UNCHANGED <<fqResponses, fqRoute0, fqRouteError, fqIdx, fqSets>>

FqNext ==
    \/ \E rs \in ResponseLists, re \in BOOLEAN : ForkQueryCall(rs, re)
    \/ ForkQueryStep
    \/ ForkQueryMerge

(***************************************************************************)
(* RpcQuery::column from "We are a Fork!" (line 997) to the call of        *)
(* forkQuery: the filter mode is read from the parameters and checked      *)
(* against the type of the column.                                         *)
(***************************************************************************)
\* columnTypes_e of a column that was found (freeColumn is refused before)
ColumnTypes == {"int", "double", "bool", "text"}

\* OpenLoopColumn::ColumnQueryMode_e
ColumnModes == {"all", "eq", "between", "gt", "gte", "lt", "lte", "rx", "sub"}

NoReply == [class |-> "none", code |-> "none", why |-> "none"]

(* A request:                                                               *)
(*   type      the type of the column                                       *)
(*   mode      the mode the parameters select (lines 1004-1068)             *)
(*   rxOk      the rx parameter compiles                                    *)
(*   hasValue  queryInfo.filterLow.getString() is not empty                 *)
(*   hasAnd    queryInfo.filterHigh.getString() is not empty                *)
(*   segsOk    there is no segments parameter, or it names a segment        *)
ColumnRequests ==
    [type : ColumnTypes, mode : ColumnModes, rxOk : BOOLEAN, hasValue : BOOLEAN,
     hasAnd : BOOLEAN, segsOk : BOOLEAN]

ColInit ==
    /\ cpc = "start"
    /\ cReq = [type |-> "int", mode |-> "all", rxOk |-> TRUE, hasValue |-> TRUE,
               hasAnd |-> TRUE, segsOk |-> TRUE]
    /\ cReply = NoReply
    /\ cPassed = FALSE

\* lines 1157-1197: the mode does not go with the type of the column
ModeRefused(type, mode) ==
    /\ mode # "all" /\ mode # "eq"
    /\ \/ /\ type \in {"int", "double"}
          /\ mode \notin {"between", "gt", "gte", "lt", "lte"}
       \/ /\ type = "text"
          /\ mode \notin {"rx", "sub"}

\* lines 1035-1130 and 1157-1197: the first check that fails, and its error
ColumnCheck(q) ==
    IF q.mode = "rx" /\ ~q.rxOk
    THEN [class |-> "query", code |-> "syntax_error", why |-> "regex"]
    ELSE IF q.mode # "all" /\ ~q.hasValue
    THEN [class |-> "query", code |-> "syntax_error", why |-> "no value"]
    ELSE IF q.mode = "between" /\ ~q.hasAnd
    THEN [class |-> "query", code |-> "syntax_error", why |-> "no and"]
    ELSE IF ~q.segsOk
    THEN [class |-> "query", code |-> "syntax_error", why |-> "no segments"]
    ELSE IF ModeRefused(q.type, q.mode)
    THEN [class |-> "query", code |-> "syntax_error", why |-> "incompatible"]
    ELSE NoReply

\* the column handler on request q, up to line 1213
ColumnHandle(q) ==
    /\ UNCHANGED notCol
    /\ cpc = "start"
    /\ cpc' = "done"
    /\ cReq' = q
    /\ cReply' = ColumnCheck(q)
    /\ cPassed' = (ColumnCheck(q) = NoReply)

ColNext ==
    \E q \in ColumnRequests : ColumnHandle(q)

(***************************************************************************)
(* Specifications                                                          *)
(***************************************************************************)
(***************************************************************************)
(* RpcQuery::person: the person id, the partition it is looked up on, and  *)
(* where the request goes. The id is an int64_t in the source; here it is  *)
(* a signed integer of IdBits bits, with the same arithmetic.              *)
(***************************************************************************)
IdMin == -(2 ^ (IdBits - 1))
IdMax == 2 ^ (IdBits - 1) - 1
PersonIds == IdMin..IdMax

\* the sid parameter: absent, or a string known by what MakeHash makes of it
NoSid == IdMax + 1
Sids == {NoSid, 0, 1, IdMin}

\* targetPartition before line 1396 is reached
NoPartition == -PartitionMax

PersonInit ==
    /\ pUuid = 0
    /\ targetPartition = NoPartition
    /\ pReply = "none"

\* lines 1348-1355: id, or the hash of sid when id is 0 and sid is not empty
Uuid(id, sid) == IF id = 0 /\ sid # NoSid THEN sid ELSE id

(* std::abs(uuid): the absolute value when the type can hold it. For the    *)
(* most negative id it cannot, and the behaviour is undefined: the call may *)
(* answer any value of the type (the id itself, on the usual builds).       *)
StdAbs(u) == IF u = IdMin THEN PersonIds ELSE {IF u < 0 THEN -u ELSE u}

\* a % n of C++: the quotient is truncated, the remainder has the sign of a
Remainder(a, n) == IF a >= 0 THEN a % n ELSE -((-a) % n)

\* line 1396: std::abs(uuid) % partitions->getPartitionMax(); the cast to
\* int32_t changes no value that small
TargetPartitions(u) == {Remainder(a, PartitionMax) : a \in StdAbs(u)}

(* The handler, for a request with parameters id and sid. tbl says whether  *)
(* the table name is there and the table exists; owner says who owns the    *)
(* partition: nobody, another node, this node, this node without a loop.    *)
Person(id, sid, tbl, owner) ==
    /\ UNCHANGED notPerson
    /\ LET u == Uuid(id, sid)
       IN /\ pUuid' = u
          /\ IF u = 0 \/ tbl # "found"
             THEN /\ owner = "none"
                  /\ targetPartition' = NoPartition
                  /\ pReply' = "general_error"
             ELSE /\ targetPartition' \in TargetPartitions(u)
                  /\ pReply' = CASE owner = "none" -> "route_error"
                                  [] owner = "selfNoLoop" -> "route_error"
                                  [] owner = "self" -> "queued"
                                  [] OTHER -> "relayed"

PersonNext ==
    \E id \in PersonIds, sid \in Sids, tbl \in {"noName", "unknown", "found"},
       owner \in {"none", "remote", "self", "selfNoLoop"} : Person(id, sid, tbl, owner)

(***************************************************************************)
(* getInlineVaraibles: the typed parameters made from the keys of the      *)
(* query string. A string is the sequence of its characters.               *)
(***************************************************************************)
\* the keys a query string is made of here: something in front, a prefix or
\* none, and the rest
KeyFronts == {<<>>, <<"x">>, <<"m", "y", "_">>}
KeyPrefixes == {<<>>, <<"s", "t", "r", "_">>, <<"i", "n", "t", "_">>,
                <<"d", "b", "l", "_">>, <<"b", "o", "o", "l", "_">>}
KeyRests == {<<>>, <<"x">>, <<"a", "b">>, <<" ", "x">>}
Keys == {f \o p \o r : f \in KeyFronts, p \in KeyPrefixes, r \in KeyRests}

\* the sets of at most n keys
RECURSIVE QueriesUpTo(_)
QueriesUpTo(n) ==
    IF n = 0
    THEN {{}}
    ELSE LET less == QueriesUpTo(n - 1)
         IN less \cup {q \cup {key} : q \in less, key \in Keys}

Queries == QueriesUpTo(MaxParams)

IvInit ==
    /\ ivpc = "start"
    /\ ivQuery = {}
    /\ ivTodo = {}
    /\ paramVars = {}

\* key.find(pat) != string::npos
Find(key, pat) ==
    \E i \in 0..(Len(key) - Len(pat)) : SubSeq(key, i + 1, i + Len(pat)) = pat

\* key.substr(n), for n <= key.length()
Substr(key, n) == SubSeq(key, n + 1, Len(key))

RECURSIVE TrimLeft(_)
TrimLeft(s) == IF s # <<>> /\ Head(s) = " " THEN TrimLeft(Tail(s)) ELSE s

RECURSIVE TrimRight(_)
TrimRight(s) ==
    IF s # <<>> /\ s[Len(s)] = " " THEN TrimRight(SubSeq(s, 1, Len(s) - 1)) ELSE s

\* trim(s): s without the blanks at its ends
Trim(s) == TrimRight(TrimLeft(s))

\* no parameter is made of the key
NoParam == [name |-> <<>>, type |-> "none"]

\* lines 298-301 (305-308, 312-315, 319-322): the name, and the parameter if
\* the name is not empty
MakeParam(key, type) ==
    LET name == Trim(Substr(key, 4))
    IN IF Len(name) # 0 THEN [name |-> name, type |-> type] ELSE NoParam

\* lines 296-323: what one pass of the for makes of a key
InlineVariable(key) ==
    IF Find(key, <<"s", "t", "r", "_">>) THEN MakeParam(key, "str")
    ELSE IF Find(key, <<"i", "n", "t", "_">>) THEN MakeParam(key, "int")
    ELSE IF Find(key, <<"d", "b", "l", "_">>) THEN MakeParam(key, "dbl")
    ELSE IF Find(key, <<"b", "o", "o", "l", "_">>) THEN MakeParam(key, "bool")
    ELSE NoParam

\* paramVars[name] = value
PutParam(pv, r) ==
    IF r = NoParam THEN pv ELSE {x \in pv : x.name # r.name} \cup {r}

\* getInlineVaraibles(message) is entered, for a message with the query q
GetInlineVaraibles(q) ==
    /\ UNCHANGED notIv
    /\ ivpc = "start"
    /\ ivQuery' = q
    /\ ivTodo' = q
    /\ paramVars' = {}
    /\ ivpc' = IF q = {} THEN "done" ELSE "loop"

\* one pass of the for, on the key the iteration of the query comes to
InlinePass(key) ==
    /\ UNCHANGED notIv
    /\ ivpc = "loop"
    /\ key \in ivTodo
    /\ paramVars' = PutParam(paramVars, InlineVariable(key))
    /\ ivTodo' = ivTodo \ {key}
    /\ ivpc' = IF ivTodo' = {} THEN "done" ELSE "loop"
    /\ UNCHANGED ivQuery

IvNext ==
    \/ \E q \in Queries : GetInlineVaraibles(q)
    \/ \E key \in Keys : InlinePass(key)

(***************************************************************************)
(* HttpServe::mapEndpoints: the resources of the server and the queue each *)
(* puts a request on. A path or a query string is the sequence of its      *)
(* pieces.                                                                 *)
(***************************************************************************)
Methods == {"GET", "POST", "PUT", "DELETE"}

Paths == {<<"/v1/", "query/", "orders/event">>, <<"/v1/", "query/">>,
          <<"/v1/", "table/", "orders">>, <<"/v1/", "x", "/v1/", "query/", "y">>,
          <<"/ping">>}

QueryStrings == {<<>>, <<"fork=true">>, <<"fork=false">>, <<"debug=true&", "fork=true">>,
                 <<"x", "fork=true", "1">>}

Requests == [method : Methods, path : Paths, query_string : QueryStrings]

NoRequest == [method |-> "none", path |-> <<>>, query_string |-> <<>>]

RouteInit ==
    /\ request = NoRequest
    /\ routed = "none"

\* s.find(pat) == 0
FindAtStart(s, pat) == Len(s) >= Len(pat) /\ SubSeq(s, 1, Len(pat)) = pat

\* the resources "^/v1/.*$" (lines 170, 177, 184, 188)
UnderV1(path) == FindAtStart(path, <<"/v1/">>)

\* lines 171 and 178: path.find("/v1/query/") == 0 && query_string.find("fork=true") == -1
QueryNotFork(q) ==
    FindAtStart(q.path, <<"/v1/", "query/">>) /\ ~Find(q.query_string, <<"fork=true">>)

\* a GET resource that routes as the POST resource does
GetResourceByFork(q) == IF QueryNotFork(q) THEN "query" ELSE "other"

\* lines 170-175: both branches of the GET resource call queueQueryMessage
GetResource(q) == IF QueryNotFork(q) THEN "query" ELSE "query"

\* lines 177-182
PostResource(q) == IF QueryNotFork(q) THEN "query" ELSE "other"

\* lines 170-198, and the default resource of serve(), lines 239-241
Resource(q) ==
    CASE UnderV1(q.path) /\ q.method = "GET" -> GetResource(q)
      [] UnderV1(q.path) /\ q.method = "POST" -> PostResource(q)
      [] UnderV1(q.path) /\ q.method \in {"PUT", "DELETE"} -> "other"
      [] q.path = <<"/ping">> /\ q.method = "GET" -> "pong"
      [] OTHER -> "default"

\* what Dispatch will do with the message of request q: a GET or POST that
\* went to the query queue as a query without fork=true is an originator query
Handling(q) ==
    IF Resource(q) = "query" /\ q.method \in OriginKinds /\ QueryNotFork(q)
    THEN q.method
    ELSE "plain"

(* The server hands the request q to its resource, which queues a message  *)
(* on the query queue (queueQueryMessage) or on the other queue            *)
(* (queueOtherMessage), or answers itself; cap is the number of requests   *)
(* clients ever send.                                                      *)
HandleRequest(cap, q) ==
    /\ UNCHANGED notRoute
    /\ clients < cap
    /\ clients' = clients + 1
    /\ request' = q
    /\ routed' = Resource(q)
    /\ IF routed' = "query"
       THEN /\ queryMessagesQueued' = queryMessagesQueued + 1
            /\ queryMessages' = Emplace(queryMessages, Message(Handling(q)))
            /\ wpc' = NotifyOne(wpc)
            /\ nextMessage' = nextMessage + 1
            /\ UNCHANGED <<otherMessages, otherMessagesQueued, owpc>>
       ELSE IF routed' = "other"
       THEN /\ otherMessagesQueued' = otherMessagesQueued + 1
            /\ otherMessages' = Emplace(otherMessages, Message(Handling(q)))
            /\ owpc' = NotifyOne(owpc)
            /\ nextMessage' = nextMessage + 1
            /\ UNCHANGED <<queryMessages, queryMessagesQueued, wpc>>
       ELSE UNCHANGED <<queryMessages, queryMessagesQueued, wpc, otherMessages,
                        otherMessagesQueued, owpc, nextMessage>>
    /\ UNCHANGED <<runningQueries, jobsRun, gotQuery, gotOther, forkReplied>>

RouteNext == \E q \in Requests : HandleRequest(MaxMessages, q)

(***************************************************************************)
(* Originator queries on this node: a client sends a query without         *)
(* fork=true; the query worker that dispatches it calls forkQuery, which   *)
(* sends the request with fork=true to every node, this node included, and *)
(* waits for all the responses. The request to this node comes in through  *)
(* the resources of mapEndpoints like any other request. The other nodes   *)
(* are taken to answer. The clients send their queries with GET, so that   *)
(* nothing is queued for the other workers, which stay out of it.          *)
(***************************************************************************)
\* the originator queries of clients: an event query, by GET
OriginRequests ==
    {q \in Requests : /\ q.method = "GET"
                      /\ q.path = <<"/v1/", "query/", "orders/event">>
                      /\ q.query_string = <<>>}

\* forkQuery, lines 80-92: the request dispatchCluster sends for an originator
\* query received with method k: same method and path, fork=true added
ForkRequest(k) ==
    [method |-> k, path |-> <<"/v1/", "query/", "orders/event">>,
     query_string |-> <<"fork=true">>]

\* forkQuery, lines 80-92, in the Dispatch of an originator query received
\* with method k: the fork request reaches this node and its resource queues
\* it; the query worker waits in dispatchCluster
ForkQueryBroadcasts(k) ==
    /\ UNCHANGED notIntake
    /\ k \in OriginKinds
    /\ wpc[At("dispatch", k)] # 0
    /\ LET waiting == Moves(wpc, At("dispatch", k), At("awaiting", k))
           m == Message("Fork" \o k)
       IN IF Resource(ForkRequest(k)) = "query"
          THEN /\ queryMessagesQueued' = queryMessagesQueued + 1
               /\ queryMessages' = Emplace(queryMessages, m)
               /\ wpc' = NotifyOne(waiting)
               /\ UNCHANGED <<otherMessages, otherMessagesQueued, owpc>>
          ELSE /\ otherMessagesQueued' = otherMessagesQueued + 1
               /\ otherMessages' = Emplace(otherMessages, m)
               /\ owpc' = NotifyOne(owpc)
               /\ wpc' = waiting
               /\ UNCHANGED <<queryMessages, queryMessagesQueued>>
    /\ nextMessage' = nextMessage + 1
    /\ UNCHANGED <<runningQueries, jobsRun, clients, gotQuery, gotOther, forkReplied>>

\* the responses are in: dispatchCluster returns, forkQuery merges, the handler
\* replies, Dispatch returns and the worker is at line 91, --runningQueries
OriginatorReturns(k) ==
    /\ UNCHANGED notIntake
    /\ k \in OriginKinds
    /\ wpc[At("awaiting", k)] # 0
    /\ forkReplied[k] # 0
    /\ forkReplied' = [forkReplied EXCEPT ![k] = @ - 1]
    /\ runningQueries' = runningQueries - 1
    /\ wpc' = Moves(wpc, At("awaiting", k), "wait")
    /\ UNCHANGED <<queryMessages, otherMessages, queryMessagesQueued, otherMessagesQueued,
                   jobsRun, owpc, nextMessage, clients, gotQuery, gotOther>>

\* clients send originator queries; the query workers do their work
OriginNext ==
    \/ \E q \in OriginRequests : HandleRequest(MaxOrigins, q)
    \/ ForkQueryBroadcasts("GET")
    \/ OriginatorReturns("GET")
    \/ RunnerWaits
    \/ RunnerBlocks
    \/ RunnerWakes
    \/ RunnerTake
    \/ \E k \in MessageKinds : RunnerDispatch(k)
    \/ \E k \in MessageKinds : RunnerDone(k)

(***************************************************************************)
(* RpcQuery::batch, the runner thread (lines 1941-2058), once the request  *)
(* has passed the checks on table name, query code and table. The script   *)
(* is split into its sections; the @segment sections are dispatched first, *)
(* then the other sections. What queryDispatch brings back is an input:    *)
(* the responses that had arrived when it returned, and its routeError.    *)
(***************************************************************************)
\* the numbers of sections of one kind a script may have
BatchSections == 0..MaxResponses

\* what queryDispatch may return for n sections
BatchResults(n) == {rs \in ResponseLists : Len(rs) <= n}

BatchInit ==
    /\ bpc = "start"
    /\ bSegmentList = 0
    /\ bQueryList = 0
    /\ bResults = <<>>
    /\ bRouteError = FALSE
    /\ bIdx = 0
    /\ bReplies = <<>>

\* lines 1943-1963: extractSections, and the sections sorted into segmentList
\* (ns of them) and queryList (nq of them)
BatchExtract(ns, nq) ==
    /\ UNCHANGED notBatch
    /\ bpc = "start"
    /\ bpc' = "segments"
    /\ bSegmentList' = ns
    /\ bQueryList' = nq
    /\ UNCHANGED <<bResults, bRouteError, bIdx, bReplies>>

\* lines 1965-1967: if (segmentList.size()) queryDispatch(..., segmentList)
BatchSegments(rs, re) ==
    /\ UNCHANGED notBatch
    /\ bpc = "segments"
    /\ IF bSegmentList # 0
       THEN /\ rs \in BatchResults(bSegmentList)
            /\ bpc' = "segmentsFor"
            /\ bResults' = rs
            /\ bRouteError' = re
            /\ bIdx' = 1
       ELSE /\ rs = <<>> /\ ~re
            /\ bpc' = "queries"
            /\ UNCHANGED <<bResults, bRouteError, bIdx>>
    /\ UNCHANGED <<bSegmentList, bQueryList, bReplies>>

\* lines 2005-2007: if (queryList.size()) queryDispatch(..., queryList); with
\* an empty queryList the lambda ends here
BatchQueries(rs, re) ==
    /\ UNCHANGED notBatch
    /\ bpc = "queries"
    /\ IF bQueryList # 0
       THEN /\ rs \in BatchResults(bQueryList)
            /\ bpc' = "queriesFor"
            /\ bResults' = rs
            /\ bRouteError' = re
            /\ bIdx' = 1
       ELSE /\ rs = <<>> /\ ~re
            /\ bpc' = "done"
            /\ UNCHANGED <<bResults, bRouteError, bIdx>>
    /\ UNCHANGED <<bSegmentList, bQueryList, bReplies>>

\* lines 1969-1991 and 2009-2031: one pass of the for over results.responses
BatchFor ==
    /\ UNCHANGED notBatch
    /\ bpc \in {"segmentsFor", "queriesFor"}
    /\ bIdx <= Len(bResults)
    /\ LET r == bResults[bIdx]
       IN IF RelayedError(r)
          THEN /\ bReplies' = Append(bReplies, "relay_400")
               /\ bpc' = "done"
               /\ UNCHANGED <<bRouteError, bIdx>>
          ELSE /\ bRouteError' = (bRouteError \/ ~r.ok)
               /\ bIdx' = bIdx + 1
               /\ UNCHANGED <<bReplies, bpc>>
    /\ UNCHANGED <<bSegmentList, bQueryList, bResults>>

\* lines 1993-2002 and 2033-2056: after the for, the route error, and for the
\* queryList the JSON array under "_" and the 200 reply
BatchAfterFor ==
    /\ UNCHANGED notBatch
    /\ bpc \in {"segmentsFor", "queriesFor"}
    /\ bIdx > Len(bResults)
    /\ IF bRouteError
       THEN /\ bReplies' = Append(bReplies, "route_error")
            /\ bpc' = "done"
       ELSE IF bpc = "segmentsFor"
       THEN /\ bpc' = "queries"
            /\ UNCHANGED bReplies
       ELSE /\ bReplies' = Append(bReplies, "ok_200")
            /\ bpc' = "done"
    /\ UNCHANGED <<bSegmentList, bQueryList, bResults, bRouteError, bIdx>>

BatchNext ==
    \/ \E ns, nq \in BatchSections : BatchExtract(ns, nq)
    \/ \E rs \in ResponseLists, re \in BOOLEAN : BatchSegments(rs, re)
    \/ \E rs \in ResponseLists, re \in BOOLEAN : BatchQueries(rs, re)
    \/ BatchFor
    \/ BatchAfterFor

(***************************************************************************)
(* The fork decision of a query handler (event, lines 340-341 and          *)
(* 520-538; the other handlers alike) and the parameters forkQuery sends   *)
(* (lines 80-81). The query parameters are a container of (name, value)    *)
(* pairs that keeps what it has when a pair is emplaced; with two pairs of *)
(* the same name, the one a lookup finds is not specified. One recipient   *)
(* of each broadcast is followed.                                          *)
(***************************************************************************)
ParamPairs ==
    {<<"fork", "true">>, <<"fork", "false">>, <<"debug", "true">>, <<"debug", "false">>}

RECURSIVE ParamLists(_)
ParamLists(n) ==
    IF n = 0 THEN {<<>>}
    ELSE LET shorter == ParamLists(n - 1)
         IN shorter \cup {Append(ps, p) : ps \in shorter, p \in ParamPairs}

\* the query strings of clients
ClientParams == ParamLists(MaxParams)

\* newParams.emplace(name, value): the pairs there are stay
EmplaceParam(ps, name, value) == Append(ps, <<name, value>>)

\* getParamBool(name): the values a lookup of name can give, false when the
\* name is not there
ParamBools(ps, name) ==
    IF \A i \in DOMAIN ps : ps[i][1] # name
    THEN {FALSE}
    ELSE {ps[i][2] = "true" : i \in {j \in DOMAIN ps : ps[j][1] = name}}

\* line 520: if (!isFork) { forkQuery(...); reply; return; }
CallsForkQuery(isFork) == ~isFork

HopInit ==
    /\ hpc = "client"
    /\ hParams = <<>>
    /\ hIsFork = FALSE
    /\ hDepth = 0
    /\ hForkInFork = FALSE

\* a client sends a query with the parameters ps
ClientQuery(ps) ==
    /\ UNCHANGED notHop
    /\ hpc = "client"
    /\ hParams' = ps
    /\ hpc' = "handler"
    /\ UNCHANGED <<hIsFork, hDepth, hForkInFork>>

\* line 341: const auto isFork = message->getParamBool("fork")
HandlerReads ==
    /\ UNCHANGED notHop
    /\ hpc = "handler"
    /\ \E b \in ParamBools(hParams, "fork") : hIsFork' = b
    /\ hpc' = "decide"
    /\ UNCHANGED <<hParams, hDepth, hForkInFork>>

\* lines 520-538 with forkQuery, lines 80-91: the handler calls forkQuery,
\* which sends the request with fork=true emplaced; a recipient's handler runs
HandlerForkQuery ==
    /\ UNCHANGED notHop
    /\ hpc = "decide"
    /\ CallsForkQuery(hIsFork)
    /\ hDepth < MaxHops
    /\ hParams' = EmplaceParam(hParams, "fork", "true")
    /\ hDepth' = hDepth + 1
    /\ hForkInFork' = (hForkInFork \/ hIsFork)
    /\ hpc' = "handler"
    /\ UNCHANGED hIsFork

\* line 540 on: the handler acts as a fork, and calls no forkQuery
HandlerActsAsFork ==
    /\ UNCHANGED notHop
    /\ hpc = "decide"
    /\ ~CallsForkQuery(hIsFork)
    /\ hpc' = "fork"
    /\ UNCHANGED <<hParams, hIsFork, hDepth, hForkInFork>>

HopNext ==
    \/ \E ps \in ClientParams : ClientQuery(ps)
    \/ HandlerReads
    \/ HandlerForkQuery
    \/ HandlerActsAsFork

Init ==
    /\ LoopInit /\ ForkInit /\ DispInit /\ IntakeInit /\ FqInit /\ ColInit
    /\ PersonInit /\ IvInit /\ RouteInit /\ BatchInit /\ HopInit

SpecLoop == Init /\ [][LoopNext]_vars

SpecPurge == Init /\ [][PurgeNext]_vars

SpecFork == Init /\ [][ForkNext]_vars

SpecDispatch == Init /\ [][DispNext]_vars

\* every thread of queryDispatch goes on running, and the response of every
\* sub-query that was dispatched is delivered
DispFairness ==
    /\ WF_vars(\E n \in 0..MaxSections : QueryDispatch(n))
    /\ \A t \in Threads : WF_vars(SendOne(t))
    /\ \A t \in Threads : WF_vars(\E success \in BOOLEAN : DispatchAsync(t, success))
    /\ \A k \in Sections : WF_vars(CompleteCallback(k))
    /\ WF_vars(WaitTest)
    /\ WF_vars(WaitCompare)

SpecDispatchLive == Init /\ [][DispNext]_vars /\ DispFairness

SpecIntake == Init /\ [][IntakeNext]_vars

\* a query worker that can go on does go on: it gets queryReadyLock when the
\* lock is free, and the Dispatch it is in returns. Spurious wake-ups and the
\* arrival of messages are not promised.
IntakeFairness ==
    /\ WF_vars(RunnerWaits)
    /\ WF_vars(RunnerBlocks)
    /\ WF_vars(RunnerTake)
    /\ WF_vars(\E k \in MessageKinds : RunnerDispatch(k))
    /\ WF_vars(\E k \in MessageKinds : RunnerDone(k))

SpecIntakeLive == Init /\ [][IntakeNext]_vars /\ IntakeFairness

SpecQueues == Init /\ [][QueuesNext]_vars

\* a forkQuery that can send does, and one whose responses are in returns
OriginFairness ==
    /\ IntakeFairness
    /\ WF_vars(ForkQueryBroadcasts("GET"))
    /\ WF_vars(OriginatorReturns("GET"))

SpecOrigin == Init /\ [][OriginNext]_vars /\ OriginFairness

SpecForkQuery == Init /\ [][FqNext]_vars

SpecColumn == Init /\ [][ColNext]_vars

SpecPerson == Init /\ [][PersonNext]_vars

SpecInline == Init /\ [][IvNext]_vars

SpecRoute == Init /\ [][RouteNext]_vars

SpecForkPurge == Init /\ [][ForkPurgeNext]_vars

SpecHop == Init /\ [][HopNext]_vars

\* the runner thread of batch is a detached thread that runs to its end
SpecBatch == Init /\ [][BatchNext]_vars /\ WF_vars(BatchNext)

(***************************************************************************)
(* Properties of the scheduler                                             *)
(***************************************************************************)
\* the smallest element of a non-empty set of integers
SetMin(S) == CHOOSE x \in S : \A y \in S : x <= y

\* the runAt of the loops of s that are still running
RunningRunAts(s) == {ol[s[i]].runAt : i \in {j \in 1..Len(s) : ol[s[j]].state = "running"}}

\* C2: every Open-Loop that was destroyed was destroyed exactly once, either by
\* the scheduler after it reached state done, or by release after
\* partitionRemoved() was called on it; no operation destroys a loop another way.
C2_DestroyedByDoneOrTeardown ==
    \A i \in Ids :
        hist[i].del > 0 =>
            /\ hist[i].del = 1
            /\ \/ hist[i].by = "done"
               \/ hist[i].by = "release" /\ hist[i].pr = 1

\* C3: when run() was called with nextRun = -1, at its return nextRun is the
\* minimum runAt over the loops still running in the new active sequence (rerun),
\* the loops a gate kept from running included, and -1 when there is none.
C3_NextRunIsMinRunAt ==
    (pc = "loop" /\ idx > Len(iter) /\ nextRunIn = -1) =>
        nextRun = (IF RunningRunAts(rerun) = {} THEN -1 ELSE SetMin(RunningRunAts(rerun)))

\* C4: in a tick the loops gate-checked are loops that were in queued or active
\* when the tick admitted, at the end of the walk they are exactly those loops,
\* and a loop queued during the tick is not among them.
C4_ConsideredIsTickStart ==
    pc = "loop" =>
        /\ Range(considered) \subseteq tickStart
        /\ Range(considered) \cap Range(queued) = {}
        /\ idx > Len(iter) => Range(considered) = tickStart

\* C4: the walk of a tick is over, it considered some loop, and a loop that was
\* queued during the tick waits in queued
C4_Witness ==
    /\ pc = "loop"
    /\ idx > Len(iter)
    /\ Len(considered) > 0
    /\ Len(queued) > 0

\* C5: every step keeps the relative order of the loops that stay in active,
\* places the loops it admits behind the loops already in active and in their
\* queueCell order, walks the loops of a tick in the order of active, and calls
\* run() at most once per loop in a tick.
C5_FifoOrder ==
    [][/\ \A a, b \in Ids :
              (Before(active, a, b) /\ {a, b} \subseteq Range(active'))
                  => Before(active', a, b)
       /\ \A a, b \in Ids :
              (a \in Range(active) /\ b \in Range(queued) /\ {a, b} \subseteq Range(active'))
                  => Before(active', a, b)
       /\ \A a, b \in Ids :
              (Before(queued, a, b) /\ {a, b} \subseteq Range(active'))
                  => Before(active', a, b)
       /\ pc' = "loop" => /\ Len(considered') <= Len(iter')
                          /\ considered' = SubSeq(iter', 1, Len(considered'))
       /\ \A i \in Ids : hist'[i].runs <= 1]_vars

\* C5: a tick has ended in which some loop ran, and two loops stay in active
C5_Witness ==
    /\ pc = "idle"
    /\ ret
    /\ Len(active) >= 2

\* C6: prepare() is called at most once on a loop, only on a loop queueCell has
\* assigned, and run() is only called on a loop whose prepared latch is set, so
\* after prepare().
C6_PrepareOnceBeforeRun ==
    \A i \in Ids :
        /\ hist[i].prep <= 1
        /\ ~hist[i].prepUnassigned
        /\ ~hist[i].badRun
        /\ hist[i].runs > 0 => hist[i].prep = 1

\* C6: a loop that scheduled itself for later in an earlier call of run() has
\* been run again, after one prepare()
C6_Witness ==
    \E i \in Ids :
        /\ ol[i].alive
        /\ hist[i].prep = 1
        /\ hist[i].runs = 1
        /\ ol[i].runAt > 0
        /\ ol[i].runAt <= now
        /\ pc = "loop"
        /\ idx <= Len(iter)
        /\ i \in Range(rerun)

\* C7: while the worker is inside run(), active is written by nobody but the
\* worker: it does not change before the worker replaces it at the end of run().
C7_ActiveOnlyByWorker ==
    [][(pc = "loop" /\ pc' = "loop") => active' = active]_vars

C19_TeardownRemovesEachLoopOnce ==
    pc = "released" =>
        /\ queued = <<>> /\ active = <<>>
        /\ \A i \in Ids : hist[i].by = "release" => (hist[i].pr = 1 /\ hist[i].del = 1)
        /\ \A i \in Ids : hist[i].del <= 1

\* the loops a step deletes by purgeByTable
Purged == {i \in Ids : hist[i].del = 0 /\ hist'[i].del = 1 /\ hist'[i].by = "purge"}

\* s2 holds the elements of s1 outside gone, each once, in the order of s1
KeepsOrder(s1, s2, gone) ==
    /\ Range(s2) = Range(s1) \ gone
    /\ Len(s2) = Cardinality(Range(s2))
    /\ \A a, b \in Range(s2) : Before(s2, a, b) <=> Before(s1, a, b)

\* C20: purgeByTable(name) deletes exactly the Open-Loops in active and queued
\* whose owningTable equals name, never calls partitionRemoved() on them, and
\* leaves every other loop in active and queued, in the same relative order.
C20_PurgeDeletesExactlyTheTable ==
    [][Purged # {} =>
          /\ \E t \in Tables :
                 Purged = {i \in Range(active) \cup Range(queued) : ol[i].owningTable = t}
          /\ \A i \in Ids : hist'[i].pr = hist[i].pr
          /\ KeepsOrder(active, active', Purged)
          /\ KeepsOrder(queued, queued', Purged)]_vars

\* C20: a purge has deleted the second of three loops in active and kept the
\* other two, of the other table, in their order
C20_Witness ==
    /\ pc = "idle"
    /\ hist[2].by = "purge" /\ hist[2].pr = 0
    /\ active = <<1, 3>> /\ ol[1].alive /\ ol[3].alive

\* C24: run() returns true exactly when some w->run() of this tick returned
\* true. A call of run() walks only a non-empty active; one that returns without
\* walking (the only step that leaves the worker idle and writes the outputs of
\* run()) found active and queued empty, returns false, calls nothing on any
\* loop and leaves nextRun as it was given.
C24_ReturnsWhetherSomeRunReturnedTrue ==
    [][/\ (pc = "loop" /\ pc' = "idle") => (ret' = ranTrue)
       /\ (pc # "loop" /\ pc' = "loop") => (active' # <<>> /\ iter' = active')
       /\ (/\ pc = "idle" /\ pc' = "idle"
           /\ <<ret, nextRun, nextRunIn>>' # <<ret, nextRun, nextRunIn>>)
          => (/\ active = <<>> /\ queued = <<>>
              /\ active' = <<>> /\ queued' = <<>>
              /\ ret' = FALSE
              /\ nextRun' = nextRunIn'
              /\ hist' = hist)]_vars

\* C24: a tick in which a loop's run() returned true has ended, run() returned
\* true, and that loop is in active again
C24_Witness ==
    /\ pc = "idle"
    /\ ret
    /\ \E i \in Range(active) : ol[i].alive /\ ol[i].prepared /\ hist[i].prep = 1

\* C25: whenever loops wait in queued, queueSize is not 0, so the next call of
\* run() admits; the call of run() that starts a walk has moved every loop that
\* was in queued to the tail of active, in order, and left queued empty; and a
\* call that returns without a walk found nothing queued.
C25_TickAdmitsEveryQueuedLoop ==
    [][/\ (queued' # <<>>) => (queueSize' # 0)
       /\ (pc = "idle" /\ pc' = "loop") => (queued' = <<>> /\ active' = active \o queued)
       /\ (/\ pc = "idle" /\ pc' = "idle"
           /\ <<ret, nextRun, nextRunIn>>' # <<ret, nextRun, nextRunIn>>)
          => (queued = <<>>)]_vars

\* C25: a tick walks an active that holds a loop of an earlier tick, prepared
\* then, and behind it a loop that was queued since and that this tick admitted
C25_Witness ==
    /\ pc = "loop"
    /\ idx = 1
    /\ Len(iter) = 2
    /\ queued = <<>>
    /\ ol[iter[1]].prepared
    /\ ~ol[iter[2]].prepared /\ ol[iter[2]].alive

C30_DoneInPrepareIsDeletedUnrun ==
    [][(pc = "loop" /\ pc' = "loop" /\ idx' = idx + 1 /\ prepareEnded') =>
          LET w == iter[idx]
          IN /\ hist'[w].prep = hist[w].prep + 1
             /\ hist'[w].runs = hist[w].runs
             /\ hist[w].del = 0
             /\ hist'[w].del = 1
             /\ hist'[w].by = "done"
             /\ ~ol'[w].alive
             /\ rerun' = rerun
             /\ runCount' = runCount
             /\ ranTrue' = ranTrue
             /\ nextRun' = nextRun]_vars

\* C30: the first loop of a walk ended in its prepare() and was deleted, and the
\* walk goes on to the second loop
C30_Witness ==
    /\ pc = "loop"
    /\ prepareEnded
    /\ idx = 2
    /\ Len(iter) = 2
    /\ rerun = <<>>
    /\ hist[iter[1]].prep = 1 /\ hist[iter[1]].runs = 0 /\ hist[iter[1]].del = 1

\* C31: whatever other threads do meanwhile, the worker never comes to use a
\* deleted Open-Loop: no freed loop has been read, the rest of the walk and the
\* loops kept for the next tick are live, and between ticks active holds live
\* loops only.
C31_NoUseAfterDelete ==
    /\ pc # "ub"
    /\ pc = "loop" => \A i \in 1..Len(iter) : i >= idx => ol[iter[i]].alive
    /\ \A i \in Range(rerun) : ol[i].alive
    /\ pc = "idle" => \A i \in Range(active) : ol[i].alive

\* C39: between the calls of queueCell, run, purgeByTable and release, every
\* live Open-Loop is once in queued or once in active and not in both, no
\* Open-Loop has been deleted twice, and queueSize is at least the length of
\* queued.
C39_LoopsAreOwnedOnce ==
    pc \in {"idle", "released"} =>
        /\ \A i \in Ids : ol[i].alive => Occurs(queued, i) + Occurs(active, i) = 1
        /\ \A i \in Range(queued) \cup Range(active) : ol[i].alive
        /\ \A i \in Ids : hist[i].del <= 1
        /\ queueSize >= Len(queued)

\* C15: when run() of an Open-Loop fails with an exception during a tick, the
\* scheduler catches it, marks the loop done and goes on with the tick: the
\* exception never leaves AsyncLoop::run.
C15_RunFailureIsCaught ==
    pc # "thrown"

(***************************************************************************)
(* Properties of the fork node                                             *)
(***************************************************************************)
\* C1: once on_complete has fired, for every endpoint and every set of
\* responses, with or without an error among them, the callback has invoked
\* release exactly once.
C1_ReleaseOnceAfterComplete ==
    completes > 0 => released = 1

\* C8: a query has exactly worker_count ResultSets, all different; Open-Loops of
\* partitions on different workers hold different ResultSets, so the Open-Loops
\* that are inside run() at the same time write to different ResultSets.
C8_WorkerLocalResultSets ==
    fpc = "forked" =>
        /\ Len(resultSets) = WorkerCount
        /\ \A i, j \in 1..Len(resultSets) : i # j => resultSets[i] # resultSets[j]
        /\ \A p, q \in activeList :
               WorkerOf(p) # WorkerOf(q) => cells[p].rs # cells[q].rs
        /\ \A p, q \in activeList :
               (p # q /\ cells[p].status = "running" /\ cells[q].status = "running")
                   => cells[p].rs # cells[q].rs

\* C8: two Open-Loops of the query are inside run() at the same time
C8_Witness ==
    \E p, q \in activeList :
        p # q /\ cells[p].status = "running" /\ cells[q].status = "running"

\* C21: once the handler has forked, the Shuttle expects as many responses as
\* this node has active partitions, and the partitions that got an Open-Loop
\* bound to the Shuttle are exactly the active ones, one loop each: as many loops
\* can report as the Shuttle expects.
C21_OneLoopPerExpectedResponse ==
    fpc = "forked" =>
        /\ activeList # {}
        /\ expected = Cardinality(activeList)
        /\ {p \in Partitions : cells[p].status # "none"} = activeList
        /\ Cardinality({p \in Partitions : cells[p].status # "none"}) = expected
        /\ Len(responses) = Cardinality({p \in Partitions : cells[p].status = "reported"})

\* C21: a node with two active partitions has forked, and both loops have reported
C21_Witness ==
    /\ fpc = "forked"
    /\ Cardinality(activeList) = 2
    /\ Len(responses) = 2
    /\ completes = 1

\* C22: when the completion callback of any endpoint has run with no response in
\* error, it has replied once, with 200, every worker-local ResultSet was
\* deleted exactly once, the one serialized buffer was given back exactly once,
\* and release was invoked once.
C22_SuccessFreesResultSetsAndBuffer ==
    (completes = 1 /\ ~InError(responses)) =>
        /\ replies = <<200>>
        /\ \A i \in 1..WorkerCount : rsFreed[i] = 1
        /\ bufAlloc = 1
        /\ bufFreed = 1
        /\ released = 1

\* C14: on a fork node that owns no active_owner partition, the handler of each
\* endpoint replies exactly once, with 200 and a serialized buffer, creates no
\* Shuttle, submits no Open-Loop, and frees every ResultSet it allocated.
C14_NothingActiveRepliesEmpty ==
    (fpc # "start" /\ activeList = {}) =>
        /\ fpc = "replied"
        /\ replies = <<200>>
        /\ bufAlloc = 1
        /\ responses = <<>> /\ completes = 0
        /\ \A p \in Partitions : cells[p] = NoCell
        /\ Len(resultSets) = WorkerCount
        /\ \A i \in 1..Len(resultSets) : rsFreed[resultSets[i]] = 1

\* C14: the column handler has answered with nothing active
C14_Witness ==
    fpc = "replied" /\ activeList = {} /\ endpoint = "column" /\ replies = <<200>>

(***************************************************************************)
(* Properties of queryDispatch                                             *)
(***************************************************************************)
\* C9: the number of sub-queries in flight (dispatched and not yet answered)
\* never exceeds 4, whatever the number of sections and however completion
\* callbacks interleave with sendOne.
C9_AtMostFourInFlight ==
    Cardinality(InFlight) <= 4

\* C10: queryDispatch returns only after a response has been received for every
\* section: at return receivedCount = sendCount = number of sections, and no
\* completion callback is left to run after the return.
C10_ReturnsAfterAllResponses ==
    dpc[0] = "returned" =>
        /\ receivedCount = sendCount
        /\ sendCount = nSec
        /\ InFlight = {}

\* C34: queryDispatch returns, whatever the number of sections and whatever
\* dispatchAsync answers; and when it has returned, routeError is set if a
\* dispatchAsync failed.
C34_QueryDispatchReturns ==
    /\ <>(dpc[0] \in {"returned", "ub"})
    /\ [](dpc[0] = "returned" => ((\E k \in Sections : sect[k] = "failed") => routeError))

(***************************************************************************)
(* Properties of the HTTP intake                                           *)
(***************************************************************************)
\* C11: at no time are more than 3 query messages being dispatched at once:
\* at most 3 query workers are inside Dispatch in every reachable state.
C11_AtMostThreeDispatching ==
    Dispatching <= 3

\* C35: as long as every Dispatch returns, a message on the query queue does
\* not stay there: whenever messages are queued, the queue is later empty,
\* every message having been taken by a query worker.
C35_QueuedMessageIsTaken ==
    (queryMessagesQueued # 0) ~> (queryMessagesQueued = 0)

\* C35: a message is queued while three queries run and every other query
\* worker is blocked in wait()
C35_Witness ==
    /\ queryMessagesQueued = 1
    /\ runningQueries = 3
    /\ Dispatching = 3
    /\ wpc["asleep"] = QueryWorkerCount - 3

\* the ids of the messages of a queue, front first
IdsOf(msgs) == [i \in DOMAIN msgs |-> msgs[i].id]

\* a sequence of ids in the order the ids were given out
Increasing(s) == \A i, j \in DOMAIN s : i < j => s[i] < s[j]

\* the workers that have a message in hand and are not in Dispatch yet
InHand(wp) ==
    wp["taken"] + wp["takenGET"] + wp["takenPOST"] + wp["takenForkGET"] + wp["takenForkPOST"]

\* C37: a message of either queue is taken once at most, the messages leave
\* a queue in the order they were queued (the messages taken so far, then the
\* ones still queued, are in the order of queueing), every Dispatch begun or
\* about to begin has its own taken message, and the two counters are the
\* lengths of the two queues.
C37_QueuesHandOutEachMessageOnceInOrder ==
    /\ Increasing(gotQuery \o IdsOf(queryMessages))
    /\ Increasing(gotOther \o IdsOf(otherMessages))
    /\ jobsRun + InHand(wpc) + InHand(owpc) = Len(gotQuery) + Len(gotOther)
    /\ queryMessagesQueued = Len(queryMessages)
    /\ otherMessagesQueued = Len(otherMessages)

\* two query workers are in Dispatch at once, each with its own message
C37_Witness ==
    /\ Len(gotQuery) = 2
    /\ wpc["dispatch"] = 2

\* the query workers that wait in forkQuery for the fork replies
Awaiting == wpc["awaitingGET"] + wpc["awaitingPOST"]

\* C36: an originator query that waits for the fork reply of its own node gets
\* it: whenever query workers wait in forkQuery, later none does, however many
\* originator queries run at once.
C36_OriginatorsGoOn ==
    (Awaiting # 0) ~> (Awaiting = 0)

(***************************************************************************)
(* Properties of forkQuery                                                 *)
(***************************************************************************)
\* a response that is empty, or non-OK without a parseable JSON error
Unusable(r) == ~r.internode /\ (~r.data \/ (~r.ok /\ ~(r.brace /\ r.error)))

\* the replies of kind k that were sent
RepliesOf(k) == {i \in 1..Len(fqReplies) : fqReplies[i].kind = k}

\* C12: if any peer response is empty, or non-OK without a parseable JSON error,
\* forkQuery replies with a config/route_error, stops, returns null, and no
\* success reply is sent.
C12_RouteErrorOnUnusableResponse ==
    (fqpc = "done" /\ \E i \in 1..Len(fqResponses) : Unusable(fqResponses[i]))
        => /\ Len(fqReplies) = 1
           /\ fqReplies[1].kind = "route_error"
           /\ fqRet = "null"
           /\ RepliesOf("ok_200") = {}

\* C32: whatever the peers responded, when forkQuery has returned and the
\* handler has acted on what it returned, the client message has been replied to
\* exactly once: one error reply or one 200 reply.
C32_ExactlyOneReply ==
    fqpc = "done" => Len(fqReplies) = 1

\* the pass over response j ends forkQuery: it relays an error, or the route
\* error is set by then
Aborts(j) ==
    \/ RelayedError(fqResponses[j])
    \/ fqRoute0
    \/ \E k \in 1..j : SetsRouteError(fqResponses[k])

\* C13 as stated: if any peer response carries an embedded JSON error, forkQuery
\* relays that error as a 4xx reply and aborts: it returns null, merges nothing,
\* and no further reply is sent.
C13_RelaysAnyEmbeddedError ==
    (fqpc = "done" /\ \E i \in 1..Len(fqResponses) : RelayedError(fqResponses[i]))
        => /\ fqReplies # <<>>
           /\ fqReplies[Len(fqReplies)].kind = "relay_400"
           /\ fqRet = "null"
           /\ ~fqMerged

\* C13, amended: if a peer response carries an embedded JSON error and no
\* earlier response has ended forkQuery (by an embedded error of its own or by
\* a route error), forkQuery relays that error as a 400 reply and aborts: it
\* returns null, merges nothing, and that reply is the last one sent.
C13_RelaysFirstEmbeddedError ==
    \A i \in 1..Len(fqResponses) :
        (fqpc = "done" /\ RelayedError(fqResponses[i]) /\ \A j \in 1..(i - 1) : ~Aborts(j))
            => /\ fqReplies # <<>>
               /\ fqReplies[Len(fqReplies)] = [kind |-> "relay_400", of |-> i]
               /\ fqRet = "null"
               /\ ~fqMerged
               /\ RepliesOf("ok_200") = {}

\* C13: forkQuery has ended on the embedded error of the second response
C13_Witness ==
    /\ fqpc = "done"
    /\ Len(fqResponses) = 2
    /\ RelayedError(fqResponses[2])
    /\ fqReplies # <<>>
    /\ fqReplies[Len(fqReplies)] = [kind |-> "relay_400", of |-> 2]

(***************************************************************************)
(* Properties of the column endpoint                                       *)
(***************************************************************************)
\* the filter modes the matrix allows for a column type
MatrixAllows(type, mode) ==
    CASE type \in {"int", "double"} ->
             mode \in {"all", "eq", "between", "gt", "gte", "lt", "lte"}
      [] type = "text" -> mode \in {"all", "eq", "rx", "sub"}
      [] OTHER -> mode \in {"all", "eq"}

\* a request that nothing but the matrix can refuse
WellFormed(q) == q.rxOk /\ q.hasValue /\ q.hasAnd /\ q.segsOk

\* C16: for every (column type, filter mode) pair the column endpoint accepts
\* the request iff the pair is in the matrix (int, double: all eq between gt gte
\* lt lte; text: all eq rx sub; bool: all eq); every other pair is refused with
\* an error before any fork or Open-Loop is created.
C16_AcceptsExactlyTheMatrix ==
    (cpc = "done" /\ WellFormed(cReq)) =>
        /\ cPassed <=> MatrixAllows(cReq.type, cReq.mode)
        /\ ~cPassed <=> cReply # NoReply

\* C17: when the column endpoint refuses a request because the filter mode does
\* not go with the column type, the error has class parse and code syntax_error.
C17_IncompatibleIsParseSyntaxError ==
    (cpc = "done" /\ cReply.why = "incompatible") =>
        (cReply.class = "parse" /\ cReply.code = "syntax_error")

\* C23: a person request that got as far as choosing its partition chose one of
\* 0..PartitionMax-1, for every id that is not 0, the most negative one included.
C23_TargetPartitionInRange ==
    pReply \notin {"none", "general_error"} =>
        /\ pUuid # 0
        /\ targetPartition \in Partitions

\* the parameter a key stands for: the key starts with one of the four prefixes
\* and what follows the prefix, blanks at the ends apart, is the name
HasPrefix(key, pat) == Len(key) >= Len(pat) /\ SubSeq(key, 1, Len(pat)) = pat

Named(key, pat, type) ==
    LET name == Trim(Substr(key, Len(pat)))
    IN IF Len(name) # 0 THEN [name |-> name, type |-> type] ELSE NoParam

Intended(key) ==
    IF HasPrefix(key, <<"s", "t", "r", "_">>) THEN Named(key, <<"s", "t", "r", "_">>, "str")
    ELSE IF HasPrefix(key, <<"i", "n", "t", "_">>) THEN Named(key, <<"i", "n", "t", "_">>, "int")
    ELSE IF HasPrefix(key, <<"d", "b", "l", "_">>) THEN Named(key, <<"d", "b", "l", "_">>, "dbl")
    ELSE IF HasPrefix(key, <<"b", "o", "o", "l", "_">>)
         THEN Named(key, <<"b", "o", "o", "l", "_">>, "bool")
    ELSE NoParam

\* C26: every parameter getInlineVaraibles has made comes from a key of the
\* query that starts with one of the prefixes str_, int_, dbl_, bool_, has the
\* type of that prefix, and is named by the key without the prefix.
C26_ParameterIsKeyWithoutPrefix ==
    \A r \in paramVars :
        \E key \in ivQuery \ ivTodo : Intended(key) # NoParam /\ r = Intended(key)

\* C27: of the requests under /v1/, every GET was put on the query queue; a POST
\* was put on the query queue if its path starts with /v1/query/ and its query
\* string does not contain fork=true, and on the other queue if not; every PUT
\* and DELETE was put on the other queue.
C27_QueueByMethodPathAndFork ==
    (request # NoRequest /\ SubSeq(request.path, 1, 1) = <<"/v1/">>) =>
        LET query == /\ Len(request.path) >= 2
                     /\ request.path[2] = "query/"
            fork == \E i \in 1..Len(request.query_string) :
                        request.query_string[i] = "fork=true"
        IN routed = CASE request.method = "GET" -> "query"
                      [] request.method = "POST" /\ query /\ ~fork -> "query"
                      [] OTHER -> "other"

\* C27: a GET of a query endpoint with fork=true was put on the query queue
\* after a POST of the same was put on the other queue
C27_Witness ==
    /\ request.method = "GET"
    /\ request.path = <<"/v1/", "query/", "orders/event">>
    /\ request.query_string = <<"fork=true">>
    /\ routed = "query"
    /\ otherMessagesQueued = 1
    /\ queryMessagesQueued = 1

\* C28: until forkQuery returns nothing is released or deleted; once it has
\* returned, by any path, releaseResponses was called exactly once, every
\* ResultSet made of a response until then was deleted exactly once, and the
\* merge was given no deleted ResultSet.
C28_ReleasesAndDeletesOnceOnEveryReturn ==
    /\ ~fqUsedFreed
    /\ fqRet = "none" => (fqReleased = 0 /\ \A i \in 1..MaxResponses : fqDeleted[i] = 0)
    /\ fqRet # "none" =>
           /\ fqReleased = 1
           /\ \A i \in 1..MaxResponses : fqDeleted[i] = (IF i <= fqSets THEN 1 ELSE 0)

\* C28: forkQuery has given up on the second response after it had made a
\* ResultSet of the first
C28_Witness ==
    /\ fqRet = "null"
    /\ fqSets = 1
    /\ fqIdx = 2
    /\ fqDeleted[1] = 1

(***************************************************************************)
(* Properties of batch                                                     *)
(***************************************************************************)
\* C33: a batch request that has passed the checks is eventually replied to,
\* exactly once, whatever sections its script has.
C33_BatchRepliesOnce ==
    <>(bpc = "done" /\ Len(bReplies) = 1)

\* C38: a query is broadcast once: no message comes from more than one
\* forkQuery, the handler of a message that forkQuery sent runs with isFork
\* (whatever fork parameter the client had in its query string), and no
\* handler with isFork calls forkQuery.
C38_FanOutDepthIsOne ==
    /\ hDepth <= 1
    /\ (hpc \in {"decide", "fork"} /\ hDepth = 1) => hIsFork
    /\ ~hForkInFork

\* C40: a Shuttle is not left waiting by a table drop: when every Open-Loop of
\* the query has ended or has been deleted by purgeByTable, so that no
\* response can come any more, the Shuttle has completed or has been released,
\* or the request has its reply.
C40_ShuttleNotStranded ==
    (fpc = "forked" /\ \A p \in Partitions : cells[p].status \notin {"queued", "running"})
        => (completes # 0 \/ released # 0 \/ replies # <<>>)

====
